---- MODULE Spec2Model ----
(***************************************************************************)
(* Verification model of the Tekisho voice-assistant service:              *)
(*   - format_numbers_for_speech (combined_server.py), the number-to-      *)
(*     speech text transform, modelled character by character;             *)
(*   - get_tekisho_solutions and its helpers (rag.py), the retrieval       *)
(*     pipeline with its fallback chain, modelled statement by statement;  *)
(*   - add_document_to_knowledge_base (rag.py);                            *)
(*   - the endpoints /api/get_solutions and /api/format_numbers            *)
(*     (combined_server.py) that call the two;                             *)
(*   - the endpoints that save a chat history (combined_server.py) with    *)
(*     SupabaseClient.save_chat_history (supabase_client.py);              *)
(*   - entrypoint and the tools of Assistant (agent.py).                   *)
(* Text is a sequence of one-character strings.                            *)
(***************************************************************************)
EXTENDS Integers, Sequences, FiniteSets, TLC

VARIABLES
    w_n,        \* number_to_words call: the integer whose digit string is passed
    w_in,       \* number_to_words call: num_str
    w_out,      \* number_to_words call: the returned words
    w_pc,       \* "input" | "done"
    f_in,       \* format_numbers_for_speech call: the argument text
    f_res,      \* what the call computed: the tagged text after the percent-range
                \* pass (p1, line 97), after the unit-range pass (p2, line 98) and
                \* after the single-percent pass (out, line 99), and the history
                \* flag re: some pass matched a character an earlier pass produced
    f_twice,    \* the result of applying the function to its own result
    f_pc,       \* "input" | "once" | "twice"
    OPENAI_API_KEY,     \* rag.py: the environment variable is set
    PINECONE_API_KEY,   \* rag.py: the environment variable is set
    pinecone_lib,       \* the pinecone package can be imported
    openai_client,      \* rag.py global: TRUE for a client object, FALSE for None
    pinecone_client,    \* rag.py global: 0 for None, n for the n-th client object
    pinecone_index,     \* rag.py global: 0 for None, n for the n-th index handle
    created,            \* history: how many client objects and index handles were made
    calls,              \* how many more calls the server takes in this run
    th,                 \* per thread: where it stands and its local variables
    entry,              \* agent.py: one run of entrypoint
    agent,              \* agent.py: one Assistant session and its tool calls
    chat                \* combined_server.py: one request that saves a chat history

wvars == <<w_n, w_in, w_out, w_pc>>
fvars == <<f_in, f_res, f_twice, f_pc>>
env   == <<OPENAI_API_KEY, PINECONE_API_KEY, pinecone_lib, openai_client>>
rvars == <<env, pinecone_client, pinecone_index, created, calls, th>>
avars == <<entry, agent, chat>>

-----------------------------------------------------------------------------
(* Bounds of the model *)

\* numbers 0..MaxNum are passed to number_to_words
MaxNum == 1100
\* up to MaxPad leading zeros are put before the digit string
MaxPad == 1
\* an input text is the concatenation of at most MaxLen tokens
MaxLen == 5
\* threads of the server that take requests
NumThreads == 1
\* calls the server takes in one run
MaxCalls == 1
\* matches an index query returns at most
MaxDocs == 1
\* tool calls the session makes on the agent
MaxTools == 2

-----------------------------------------------------------------------------
(* Characters, digits, int() *)

Digits == <<"0", "1", "2", "3", "4", "5", "6", "7", "8", "9">>

\* \d of the re module (ASCII digits)
IsDigit(c) == c \in {"0", "1", "2", "3", "4", "5", "6", "7", "8", "9"}

DigitVal(c) == (CHOOSE d \in 1..10 : Digits[d] = c) - 1

\* \s of the re module
IsSpace(c) == c \in {" ", "\t", "\n", "\r"}

\* the threshold of the last elif of number_to_words
Thousand == 1000

Min(a, b) == IF a < b THEN a ELSE b

Front(s) == SubSeq(s, 1, Len(s) - 1)

\* int(num_str). Python integers are unbounded; number_to_words treats every
\* value >= 1000 alike, so the value saturates at Thousand.
RECURSIVE int(_)
int(num_str) ==
    IF num_str = <<>> THEN 0
    ELSE Min(Thousand, int(Front(num_str)) * 10 + DigitVal(num_str[Len(num_str)]))

-----------------------------------------------------------------------------
(* number_to_words, combined_server.py lines 40-71 *)

ones ==
    << <<>>,
       <<"o", "n", "e">>,
       <<"t", "w", "o">>,
       <<"t", "h", "r", "e", "e">>,
       <<"f", "o", "u", "r">>,
       <<"f", "i", "v", "e">>,
       <<"s", "i", "x">>,
       <<"s", "e", "v", "e", "n">>,
       <<"e", "i", "g", "h", "t">>,
       <<"n", "i", "n", "e">> >>

teens ==
    << <<"t", "e", "n">>,
       <<"e", "l", "e", "v", "e", "n">>,
       <<"t", "w", "e", "l", "v", "e">>,
       <<"t", "h", "i", "r", "t", "e", "e", "n">>,
       <<"f", "o", "u", "r", "t", "e", "e", "n">>,
       <<"f", "i", "f", "t", "e", "e", "n">>,
       <<"s", "i", "x", "t", "e", "e", "n">>,
       <<"s", "e", "v", "e", "n", "t", "e", "e", "n">>,
       <<"e", "i", "g", "h", "t", "e", "e", "n">>,
       <<"n", "i", "n", "e", "t", "e", "e", "n">> >>

tens ==
    << <<>>,
       <<>>,
       <<"t", "w", "e", "n", "t", "y">>,
       <<"t", "h", "i", "r", "t", "y">>,
       <<"f", "o", "r", "t", "y">>,
       <<"f", "i", "f", "t", "y">>,
       <<"s", "i", "x", "t", "y">>,
       <<"s", "e", "v", "e", "n", "t", "y">>,
       <<"e", "i", "g", "h", "t", "y">>,
       <<"n", "i", "n", "e", "t", "y">> >>

units ==
    << <<"w", "e", "e", "k", "s">>,
       <<"d", "a", "y", "s">>,
       <<"m", "o", "n", "t", "h", "s">>,
       <<"h", "o", "u", "r", "s">> >>

W_zero == <<"z", "e", "r", "o">>
W_hundred == <<" ", "h", "u", "n", "d", "r", "e", "d">>
W_and == <<" ", "a", "n", "d", " ">>
W_to == <<" ", "t", "o", " ">>
W_percent == <<" ", "p", "e", "r", "c", "e", "n", "t">>

\* num < 100 branches (lines 53-58); num in 1..99
UnderHundred(num) ==
    IF num < 10 THEN ones[num + 1]
    ELSE IF num < 20 THEN teens[num - 10 + 1]
    ELSE tens[(num \div 10) + 1]
         \o (IF num % 10 # 0 THEN <<" ">> \o ones[(num % 10) + 1] ELSE <<>>)

\* a slip in the hundreds branch: the remainder < 10 case is not told apart
\* and goes through the tens table
HundredsNoSmallRemainder(num) ==
    LET hundreds == ones[(num \div 100) + 1] \o W_hundred
        remainder == num % 100
    IN  IF remainder = 0 THEN hundreds
        ELSE IF remainder >= 10 /\ remainder < 20
             THEN hundreds \o W_and \o teens[remainder - 10 + 1]
        ELSE hundreds \o W_and \o tens[(remainder \div 10) + 1]
             \o (IF remainder % 10 # 0
                 THEN <<" ">> \o ones[(remainder % 10) + 1] ELSE <<>>)

\* the elif num < 1000 branch (lines 59-69); num in 100..999
Hundreds(num) ==
    LET hundreds == ones[(num \div 100) + 1] \o W_hundred
        remainder == num % 100
    IN  IF remainder = 0 THEN hundreds
        ELSE IF remainder < 10 THEN hundreds \o W_and \o ones[remainder + 1]
        ELSE IF remainder < 20 THEN hundreds \o W_and \o teens[remainder - 10 + 1]
        ELSE hundreds \o W_and \o tens[(remainder \div 10) + 1]
             \o (IF remainder % 10 # 0
                 THEN <<" ">> \o ones[(remainder % 10) + 1] ELSE <<>>)

\* str(int(num_str)): the digit string without its leading zeros
RECURSIVE StripZeros(_)
StripZeros(s) ==
    IF Len(s) > 1 /\ s[1] = "0" THEN StripZeros(Tail(s)) ELSE s

\* a slip in the fallback: the number is printed back from its value
LargeNumberFromValue(num_str) == StripZeros(num_str)

\* the else branch (lines 70-71): "Fallback for large numbers"
LargeNumber(num_str) == num_str

number_to_words(num_str) ==
    LET num == int(num_str)
    IN  IF num = 0 THEN W_zero
        ELSE IF num < 100 THEN UnderHundred(num)
        ELSE IF num < Thousand THEN Hundreds(num)
        ELSE LargeNumber(num_str)

-----------------------------------------------------------------------------
(* The three patterns of format_numbers_for_speech, as re matches them *)

\* the character at position i, "" beyond either end
Ch(s, i) == IF i >= 1 /\ i <= Len(s) THEN s[i] ELSE ""

RECURSIVE DigitRunLen(_, _)
\* how many digits follow from position i on
DigitRunLen(s, i) == IF IsDigit(Ch(s, i)) THEN 1 + DigitRunLen(s, i + 1) ELSE 0

RECURSIVE SpaceRunLen(_, _)
SpaceRunLen(s, i) == IF IsSpace(Ch(s, i)) THEN 1 + SpaceRunLen(s, i + 1) ELSE 0

HasAt(s, i, w) == i + Len(w) - 1 <= Len(s) /\ SubSeq(s, i, i + Len(w) - 1) = w

SetMin(S) == CHOOSE x \in S : \A y \in S : x <= y

\* a match object: where it starts, its length and its groups; len = 0 stands
\* for no match
NoMatch == [start |-> 0, len |-> 0, g1 |-> <<>>, g2 |-> <<>>, g3 |-> <<>>]

\* A way a pattern matches at a position is <<la, lb, ls, u>>: the lengths of
\* group 1, of group 2 and of the whitespace run, and the alternative of the
\* unit group (0 for a part the pattern does not have).
\* The order in which re tries the ways: a greedy \d+ or \s+ gives back one
\* character at a time, the alternatives are tried from left to right.
Earlier(c, d) ==
    \/ c[1] > d[1]
    \/ c[1] = d[1] /\ c[2] > d[2]
    \/ c[1] = d[1] /\ c[2] = d[2] /\ c[3] > d[3]
    \/ c[1] = d[1] /\ c[2] = d[2] /\ c[3] = d[3] /\ c[4] <= d[4]

\* the way re finds: the first one in that order
FirstWay(C) == CHOOSE c \in C : \A d \in C : Earlier(c, d)

\* lengths la of a first group (\d+) at position i that the character ch follows
GroupEnds(s, i, ch) == {la \in 1..DigitRunLen(s, i) : Ch(s, i + la) = ch}

\* lengths lb of a second group at position j that '%' follows
PercentEnds(s, j) == GroupEnds(s, j, "%")

\* the ways r'(\d+)-(\d+)%' matches at position i
PercentRangeWays(s, i) ==
    UNION {{<<la, lb, 0, 0>> : lb \in PercentEnds(s, i + la + 1)} :
               la \in GroupEnds(s, i, "-")}

PercentRangeMatch(s, i, c) ==
    [start |-> i,
     len |-> c[1] + 1 + c[2] + 1,
     g1 |-> SubSeq(s, i, i + c[1] - 1),
     g2 |-> SubSeq(s, i + c[1] + 1, i + c[1] + c[2]),
     g3 |-> <<>>]

\* r'(\d+)-(\d+)%' tried at position i
PercentRangePattern(s, i) ==
    IF PercentRangeWays(s, i) = {} THEN NoMatch
    ELSE PercentRangeMatch(s, i, FirstWay(PercentRangeWays(s, i)))

\* the alternatives of (weeks|days|months|hours) that match at position j
UnitsAt(s, j) == {u \in 1..Len(units) : HasAt(s, j, units[u])}

\* whitespace runs of at least `least` characters at position j and the unit
\* that follows them
SpaceEnds(s, j, least) ==
    UNION {{<<ls, u>> : u \in UnitsAt(s, j + ls)} : ls \in least..SpaceRunLen(s, j)}

\* second groups at position j with the whitespace and the unit that follow
UnitEnds(s, j, least) ==
    UNION {{<<lb, e[1], e[2]>> : e \in SpaceEnds(s, j + lb, least)} :
               lb \in 1..DigitRunLen(s, j)}

\* the ways (\d+)-(\d+)<whitespace>(weeks|days|months|hours) matches at
\* position i, the whitespace run being at least `least` long
UnitRangeWays(s, i, least) ==
    UNION {{<<la, e[1], e[2], e[3]>> : e \in UnitEnds(s, i + la + 1, least)} :
               la \in GroupEnds(s, i, "-")}

UnitRangeMatch(s, i, c) ==
    [start |-> i,
     len |-> c[1] + 1 + c[2] + c[3] + Len(units[c[4]]),
     g1 |-> SubSeq(s, i, i + c[1] - 1),
     g2 |-> SubSeq(s, i + c[1] + 1, i + c[1] + c[2]),
     g3 |-> units[c[4]]]

UnitRangeWith(s, i, least) ==
    IF UnitRangeWays(s, i, least) = {} THEN NoMatch
    ELSE UnitRangeMatch(s, i, FirstWay(UnitRangeWays(s, i, least)))

\* a slip in the pattern: \s* where \s+ is meant
UnitRangeOptionalSpace(s, i) == UnitRangeWith(s, i, 0)

\* r'(\d+)-(\d+)\s+(weeks|days|months|hours)' tried at position i
UnitRangePattern(s, i) == UnitRangeWith(s, i, 1)

\* a slip in the pattern: r'(\d+).', any character but a newline may follow
SinglePercentAnyChar(s, i) ==
    {<<la, 0, 0, 0>> : la \in {l \in 1..DigitRunLen(s, i) : Ch(s, i + l) \notin {"", "\n"}}}

\* the ways r'(\d+)%' matches at position i
SinglePercentWays(s, i) == {<<la, 0, 0, 0>> : la \in PercentEnds(s, i)}

SinglePercentMatch(s, i, c) ==
    [start |-> i,
     len |-> c[1] + 1,
     g1 |-> SubSeq(s, i, i + c[1] - 1),
     g2 |-> <<>>,
     g3 |-> <<>>]

\* r'(\d+)%' tried at position i
SinglePercentPattern(s, i) ==
    IF SinglePercentWays(s, i) = {} THEN NoMatch
    ELSE SinglePercentMatch(s, i, FirstWay(SinglePercentWays(s, i)))

-----------------------------------------------------------------------------
(* The replacement callbacks, combined_server.py lines 73-94 *)

\* a slip in the f-string: the '%' sign is kept instead of the word
replace_percent_range_keep_sign(m) ==
    number_to_words(m.g1) \o W_to \o number_to_words(m.g2) \o <<"%">>

\* f"{start_words} to {end_words} percent"
replace_percent_range(m) ==
    number_to_words(m.g1) \o W_to \o number_to_words(m.g2) \o W_percent

\* a slip in the f-string: no space before the unit
replace_number_range_no_space(m) ==
    number_to_words(m.g1) \o W_to \o number_to_words(m.g2) \o m.g3

\* f"{start_words} to {end_words} {unit}"
replace_number_range(m) ==
    number_to_words(m.g1) \o W_to \o number_to_words(m.g2) \o <<" ">> \o m.g3

\* another design: a percentage of 1000 or more is left as it stands
replace_single_percent_skip_large(m) ==
    IF int(m.g1) >= Thousand THEN m.g1 \o <<"%">>
    ELSE number_to_words(m.g1) \o W_percent

\* f"{num_words} percent"
replace_single_percent(m) == number_to_words(m.g1) \o W_percent

-----------------------------------------------------------------------------
(* re.sub over tagged text.  A tagged character [c, g, o] carries the        *)
(* character c, the pass g that produced it (0: a character of the input)    *)
(* and the input position o it stands at or replaces.  The tags are history  *)
(* only: matching reads the characters alone.                                *)

Tagged(text) == [i \in 1..Len(text) |-> [c |-> text[i], g |-> 0, o |-> i]]

Plain(t) == [i \in 1..Len(t) |-> t[i].c]

Produced(r, k, origin) == [i \in 1..Len(r) |-> [c |-> r[i], g |-> k, o |-> origin]]

\* the passes: 1 percent range, 2 unit range, 3 single percent
MatchAt(k, s, i) ==
    IF k = 1 THEN PercentRangePattern(s, i)
    ELSE IF k = 2 THEN UnitRangePattern(s, i)
    ELSE SinglePercentPattern(s, i)

Replacement(k, m) ==
    IF k = 1 THEN replace_percent_range(m)
    ELSE IF k = 2 THEN replace_number_range(m)
    ELSE replace_single_percent(m)

\* the positions from i on at which the pattern of pass k matches
MatchStarts(k, s, i) == {j \in i..Len(s) : MatchAt(k, s, j).len > 0}

\* pattern.search(string, i): the leftmost match from position i on
search(k, s, i) ==
    IF MatchStarts(k, s, i) = {} THEN NoMatch
    ELSE MatchAt(k, s, SetMin(MatchStarts(k, s, i)))

\* the text from i up to the match m, the replacement of m, and `rest`, the
\* result for the text behind m
Spliced(k, t, i, m, rest) ==
    [t  |-> SubSeq(t, i, m.start - 1)
            \o Produced(Replacement(k, m), k, t[m.start].o)
            \o rest.t,
     re |-> rest.re \/ \E x \in m.start..(m.start + m.len - 1) : t[x].g # 0]

\* the text from position i on, none of it replaced
Kept(t, i) == [t |-> SubSeq(t, i, Len(t)), re |-> FALSE]

\* re.sub(pattern, repl, string, count) from position i on: the pattern is
\* searched from i, the leftmost match is replaced and the search resumes
\* behind it; count = 0 replaces every match, count = n the first n.
\* Returns the new tagged text and whether a match took in a produced character.
RECURSIVE re_sub(_, _, _, _, _)

\* re_sub from i on, m being the leftmost match from i on
re_sub_from(k, t, s, i, count, m) ==
    IF m.len = 0 THEN Kept(t, i)
    ELSE Spliced(k, t, i, m,
                 IF count = 1 THEN Kept(t, m.start + m.len)
                 ELSE re_sub(k, t, s, m.start + m.len,
                             IF count = 0 THEN 0 ELSE count - 1))

re_sub(k, t, s, i, count) == re_sub_from(k, t, s, i, count, search(k, s, i))

\* line 97
SubPercentRange(t) == re_sub(1, t, Plain(t), 1, 0)

\* line 98
SubUnitRange(t) == re_sub(2, t, Plain(t), 1, 0)

\* a slip in the call: count=1, only the first match is replaced
SubSinglePercentOnce(t) == re_sub(3, t, Plain(t), 1, 1)

\* line 99
SubSinglePercent(t) == re_sub(3, t, Plain(t), 1, 0)

\* the value returned after the three statements left a, b and c: the text
\* after each of them and whether any match took in a produced character
Texts(a, b, c) == [p1 |-> a.t, p2 |-> b.t, out |-> c.t, re |-> a.re \/ b.re \/ c.re]

single_percent_first_3(a, b) == Texts(a, b, SubUnitRange(b.t))

single_percent_first_2(a) == single_percent_first_3(a, SubPercentRange(a.t))

\* a slip in the order of the statements: single percentages first
format_single_percent_first(text) ==
    single_percent_first_2(SubSinglePercent(Tagged(text)))

\* line 99 and the return, r1 and r2 being the results of lines 97 and 98
Line99(r1, r2) == Texts(r1, r2, SubSinglePercent(r2.t))

\* line 98 and what follows, r1 being the result of line 97
Line98(r1) == Line99(r1, SubUnitRange(r1.t))

\* lines 96-101: the three statements, each on the text the one before left;
\* p1 and p2 are the values of `text` between them
format_numbers_for_speech(text) == Line98(SubPercentRange(Tagged(text)))

-----------------------------------------------------------------------------
(* rag.py: values *)

\* Python's None, and any other value that is not a string
None == <<"">>

\* top_k: int = 5 (line 138)
DefaultTopK == 5

\* thread 0 imports the module (line 280); the others take requests
Procs == DOMAIN th
Requests == DOMAIN th \ {0}

Challenges == {<<"h", "r">>}
Industries == {None, <<>>, <<"i", "t">>}

\* message.content of the completion: null, empty, blank, or text in blanks
Contents == {None, <<>>, <<" ">>, <<" ", "5", "%", " ">>}

\* the "text" entries of the matches' metadata: a string, or something else
DocTexts == {<<"d">>, None}
DocLists == UNION {[1..n -> DocTexts] : n \in 0..MaxDocs}

RECURSIVE lstrip(_)
lstrip(s) == IF s # <<>> /\ IsSpace(Head(s)) THEN lstrip(Tail(s)) ELSE s

RECURSIVE rstrip(_)
rstrip(s) == IF s # <<>> /\ IsSpace(s[Len(s)]) THEN rstrip(Front(s)) ELSE s

\* str.strip()
strip(s) == rstrip(lstrip(s))

\* `if x:` for x a string or None
Truthy(x) == x # None /\ x # <<>>

FB_understand ==
    <<"I", " ", "u", "n", "d", "e", "r", "s", "t", "a", "n", "d", " ", "y",
      "o", "u", "'", "r", "e", " ", "f", "a", "c", "i", "n", "g", " ", "c",
      "h", "a", "l", "l", "e", "n", "g", "e", "s", " ", "w", "i", "t", "h",
      " ">>

FB_businesses ==
    <<"F", "o", "r", " ", "b", "u", "s", "i", "n", "e", "s", "s", "e", "s",
      " ", "i", "n", " ", "t", "h", "e", " ">>

FB_industry ==
    <<" ", "i", "n", "d", "u", "s", "t", "r", "y", ",", " ">>

FB_paragraph ==
    <<"T", "e", "k", "i", "s", "h", "o", "'", "s", " ", "A", "I", " ", "s",
      "o", "l", "u", "t", "i", "o", "n", "s", " ", "t", "y", "p", "i", "c",
      "a", "l", "l", "y", " ", "d", "e", "l", "i", "v", "e", "r", " ", "s",
      "i", "g", "n", "i", "f", "i", "c", "a", "n", "t", " ", "r", "e", "s",
      "u", "l", "t", "s", ".", " ", "O", "u", "r", " ", "c", "l", "i", "e",
      "n", "t", "s", " ", "s", "e", "e", " ", "R", "O", "I", " ", "r", "a",
      "n", "g", "i", "n", "g", " ", "f", "r", "o", "m", " ", "1", "5", "0",
      " ", "t", "o", " ", "3", "0", "0", " ", "p", "e", "r", "c", "e", "n",
      "t", " ", "w", "i", "t", "h", "i", "n", " ", "6", " ", "t", "o", " ",
      "1", "2", " ", "w", "e", "e", "k", "s", ".", " ", "C", "o", "m", "m",
      "o", "n", " ", "b", "e", "n", "e", "f", "i", "t", "s", " ", "i", "n",
      "c", "l", "u", "d", "e", " ", "c", "o", "s", "t", " ", "s", "a", "v",
      "i", "n", "g", "s", " ", "o", "f", " ", "2", "5", " ", "t", "o", " ",
      "4", "0", " ", "p", "e", "r", "c", "e", "n", "t", " ", "a", "n", "d",
      " ", "p", "r", "o", "d", "u", "c", "t", "i", "v", "i", "t", "y", " ",
      "i", "m", "p", "r", "o", "v", "e", "m", "e", "n", "t", "s", " ", "o",
      "f", " ", "5", "0", " ", "t", "o", " ", "8", "0", " ", "p", "e", "r",
      "c", "e", "n", "t", ".", " ", "I", "'", "d", " ", "b", "e", " ", "h",
      "a", "p", "p", "y", " ", "t", "o", " ", "c", "o", "n", "n", "e", "c",
      "t", " ", "y", "o", "u", " ", "w", "i", "t", "h", " ", "o", "u", "r",
      " ", "s", "o", "l", "u", "t", "i", "o", "n", " ", "a", "r", "c", "h",
      "i", "t", "e", "c", "t", "s", " ", "w", "h", "o", " ", "c", "a", "n",
      " ", "p", "r", "o", "v", "i", "d", "e", " ", "s", "p", "e", "c", "i",
      "f", "i", "c", " ", "r", "e", "c", "o", "m", "m", "e", "n", "d", "a",
      "t", "i", "o", "n", "s", " ", "t", "a", "i", "l", "o", "r", "e", "d",
      " ", "t", "o", " ", "y", "o", "u", "r", " ", "n", "e", "e", "d", "s",
      ".", " ", "W", "o", "u", "l", "d", " ", "t", "h", "a", "t", " ", "b",
      "e", " ", "h", "e", "l", "p", "f", "u", "l", "?">>

QT_industry ==
    <<" ", "i", "n", "d", "u", "s", "t", "r", "y", ":", " ">>

\* a slip in the test of line 214: `is not None` where truth is meant
generate_fallback_response_not_none(challenge, industry) ==
    FB_understand \o challenge \o <<".", " ">>
    \o (IF industry # None THEN FB_businesses \o industry \o FB_industry ELSE <<>>)
    \o FB_paragraph

\* generate_fallback_response, lines 210-225
generate_fallback_response(challenge, industry) ==
    FB_understand \o challenge \o <<".", " ">>
    \o (IF Truthy(industry) THEN FB_businesses \o industry \o FB_industry ELSE <<>>)
    \o FB_paragraph

-----------------------------------------------------------------------------
(* rag.py: the threads *)

\* the local variables of a thread that stands at pc
Frame(pc) ==
    [pc |-> pc,
     ret |-> "load",            \* who called initialize_pinecone
     challenge |-> None, industry |-> None, top_k |-> 0,
     query_text |-> None, filter_dict |-> None,
     query_embedding |-> <<>>,
     relevant_docs |-> <<>>,
     result |-> None,           \* the value returned to the caller
     raised |-> FALSE,          \* an exception left get_tekisho_solutions
     ext |-> <<>>,              \* history: the external calls of this call
     cause |-> "none",          \* history: the step of this call that failed
     inits |-> 0,               \* history: its calls of initialize_pinecone
     text |-> None,             \* add_document_to_knowledge_base: text
     metadata |-> {},           \* its metadata argument, a set of <<key, value>>,
                                \* as the caller passed it
     mapping |-> {},            \* what the caller's metadata object holds now
     is_dict |-> FALSE,         \* the metadata argument allows metadata[key] = value
     doc_id |-> None,           \* its doc_id argument
     embedding |-> <<>>,        \* its local `embedding`
     added |-> FALSE,           \* the value it returned
     api |-> "none",            \* the endpoint that serves the request
     data |-> [json |-> FALSE, challenge |-> <<"">>, industry |-> <<"">>,
               wants_specific_metrics |-> <<"">>,
               text |-> <<"">>],  \* the JSON body of the request
     wants_specific_metrics |-> None,  \* get_solutions_api: its local of line 235
     content |-> None,          \* history: message.content of the completion
     status |-> 0,              \* the HTTP status of the response
     solution |-> None]         \* "solution" or "formatted_text" of the response

\* the step named cause failed
Fail(f, cause) == [f EXCEPT !.cause = cause]

Ext(f, call) == [f EXCEPT !.ext = Append(@, call)]

\* a slip in the handler: only the API's own errors are caught, so the
\* AttributeError of None.strip() leaves the function
SolutionsExceptNarrow(loc) == IF loc = "strip" THEN "propagate" ELSE "fallback"

\* except Exception (lines 206-208), for an exception raised at loc
SolutionsExcept(loc) == "fallback"

\* get_tekisho_solutions returns the fallback (lines 165, 208)
ReturnFallback(f) ==
    [f EXCEPT !.pc = "done",
              !.result = generate_fallback_response(f.challenge, f.industry)]

\* a slip in the handler: the error is logged and an empty answer returned
RaiseReturnsNothing(f, loc) == [f EXCEPT !.pc = "done", !.result = <<>>]

\* an exception raised at loc inside the try of get_tekisho_solutions
Raise(f, loc) ==
    IF SolutionsExcept(loc) = "fallback" THEN ReturnFallback(f)
    ELSE [f EXCEPT !.pc = "done", !.raised = TRUE]

\* query_pinecone returns documents to line 161
ReturnDocs(f, documents) == [f EXCEPT !.pc = "gts_docs", !.relevant_docs = documents]

\* add_document_to_knowledge_base returns ok (lines 247, 253, 273, 277)
ReturnAdded(f, ok) == [f EXCEPT !.pc = "add_done", !.added = ok]

\* a slip in the handler: only the API's own errors are caught, so the
\* TypeError of the metadata assignment leaves the function
AddExceptNarrow(loc) == IF loc = "setitem" THEN "propagate" ELSE "false"

\* except Exception (lines 275-277), for an exception raised at loc
AddExcept(loc) == "false"

\* an exception raised at loc inside the try of add_document_to_knowledge_base
RaiseAdd(f, loc) ==
    IF AddExcept(loc) = "false" THEN ReturnAdded(f, FALSE)
    ELSE [f EXCEPT !.pc = "add_done", !.raised = TRUE]

\* initialize_pinecone returns ok to its caller: the module body (line 280),
\* query_pinecone (lines 81-82) or add_document_to_knowledge_base (lines 246-247)
InitReturn(f, ok) ==
    IF f.ret = "load" THEN [f EXCEPT !.pc = "loaded"]
    ELSE IF f.ret = "add"
    THEN (IF ok THEN [f EXCEPT !.pc = "add_embed"] ELSE ReturnAdded(f, FALSE))
    ELSE IF ok THEN [f EXCEPT !.pc = "qp_embed"]
    ELSE ReturnDocs(f, <<>>)

\* initialize_pinecone() is called (lines 81, 246)
CallInit(f) == [f EXCEPT !.pc = "init_client", !.inits = @ + 1]

\* initialize_pinecone, lines 31-44: the key, the import, the client
InitClient(p) ==
    /\ th[p].pc = "init_client"
    /\ \E outcome \in {"ok", "raise"} :
        IF ~PINECONE_API_KEY
        THEN /\ th' = [th EXCEPT ![p] = InitReturn(Fail(th[p], "no_credentials"), FALSE)]
             /\ UNCHANGED <<pinecone_client, created>>
        ELSE IF ~pinecone_lib
        THEN /\ th' = [th EXCEPT ![p] = InitReturn(Fail(th[p], "no_library"), FALSE)]
             /\ UNCHANGED <<pinecone_client, created>>
        ELSE IF outcome = "raise"
        THEN /\ th' = [th EXCEPT ![p] =
                         InitReturn(Fail(Ext(th[p], <<"Pinecone">>), "init_exception"),
                                    FALSE)]
             /\ UNCHANGED <<pinecone_client, created>>
        ELSE /\ pinecone_client' = created.clients + 1
             /\ created' = [created EXCEPT !.clients = @ + 1]
             /\ th' = [th EXCEPT ![p] = [Ext(th[p], <<"Pinecone">>)
                                            EXCEPT !.pc = "init_index"]]
    /\ UNCHANGED <<env, pinecone_index, calls, wvars, fvars, avars>>

\* initialize_pinecone, lines 46-58: the list of indexes, the index handle
InitIndex(p) ==
    /\ th[p].pc = "init_index"
    /\ \E outcome \in {"list_raises", "absent", "index_raises", "ok"} :
        LET f == IF outcome \in {"index_raises", "ok"}
                 THEN Ext(Ext(th[p], <<"list_indexes">>), <<"Index">>)
                 ELSE Ext(th[p], <<"list_indexes">>)
        IN  IF outcome = "ok"
            THEN /\ pinecone_index' = created.indexes + 1
                 /\ created' = [created EXCEPT !.indexes = @ + 1]
                 /\ th' = [th EXCEPT ![p] = InitReturn(f, TRUE)]
            ELSE /\ th' = [th EXCEPT ![p] =
                             InitReturn(Fail(f, IF outcome = "absent"
                                                THEN "index_missing"
                                                ELSE "init_exception"),
                                        FALSE)]
                 /\ UNCHANGED <<pinecone_index, created>>
    /\ UNCHANGED <<env, pinecone_client, calls, wvars, fvars, avars>>

\* the industry and top_k arguments callers pass: no industry, the empty
\* one, and an industry with the default top_k and with another
SolutionArgs ==
    {<<i, DefaultTopK>> : i \in Industries} \cup {<<i, 1>> : i \in Industries \ {None, <<>>}}

\* a slip in the f-string: the industry is left out of the text
QueryTextNoIndustry(challenge, industry) == challenge

\* query_text, lines 153-157
QueryText(challenge, industry) ==
    IF Truthy(industry) THEN industry \o QT_industry \o challenge ELSE challenge

\* filter_dict, lines 155 and 158: None, or the value the one key "industry"
\* of the dictionary has
FilterDict(industry) == IF Truthy(industry) THEN industry ELSE None

\* the locals of get_tekisho_solutions(challenge, industry, top_k) at line 161
Solutions(challenge, industry, top_k) ==
    [Frame("qp_check") EXCEPT
        !.ret = "qp",
        !.challenge = challenge,
        !.industry = industry,
        !.top_k = top_k,
        !.query_text = QueryText(challenge, industry),
        !.filter_dict = FilterDict(industry)]

\* get_tekisho_solutions is called; lines 151-161 build the query
CallSolutions(p) ==
    /\ p \in Requests
    /\ th[0].pc = "loaded"
    /\ th[p].pc = "idle"
    /\ calls > 0
    /\ calls' = calls - 1
    /\ \E challenge \in Challenges, args \in SolutionArgs :
        th' = [th EXCEPT ![p] = Solutions(challenge, args[1], args[2])]
    /\ UNCHANGED <<env, pinecone_client, pinecone_index, created, wvars, fvars, avars>>

\* query_pinecone, lines 80-82: `if not pinecone_index`
QueryCheckIndex(p) ==
    /\ th[p].pc = "qp_check"
    /\ th' = [th EXCEPT ![p] = IF pinecone_index = 0 THEN CallInit(th[p])
                               ELSE [th[p] EXCEPT !.pc = "qp_embed"]]
    /\ UNCHANGED <<env, pinecone_client, pinecone_index, created, calls, wvars, fvars, avars>>

\* a slip in query_pinecone: `if not query_embedding` is left out
QueryEmbedUnchecked(p) ==
    /\ th[p].pc = "qp_embed"
    /\ \E outcome \in {"raise", "empty", "vector"} :
        LET f == IF openai_client THEN Ext(th[p], <<"embed", th[p].query_text>>)
                 ELSE th[p]
        IN  th' = [th EXCEPT ![p] =
                     [f EXCEPT !.pc = "qp_query",
                               !.query_embedding = IF openai_client /\ outcome = "vector"
                                                   THEN <<1>> ELSE <<>>]]
    /\ UNCHANGED <<env, pinecone_client, pinecone_index, created, calls, wvars, fvars, avars>>

\* query_pinecone, lines 86-88, with get_embedding, lines 60-74
QueryEmbed(p) ==
    /\ th[p].pc = "qp_embed"
    /\ \E outcome \in {"raise", "empty", "vector"} :
        IF ~openai_client
        THEN th' = [th EXCEPT ![p] = ReturnDocs(Fail(th[p], "no_embedding_key"), <<>>)]
        ELSE LET f == Ext(th[p], <<"embed", th[p].query_text>>)
             IN  IF outcome = "vector"
                 THEN th' = [th EXCEPT ![p] = [f EXCEPT !.pc = "qp_query",
                                                        !.query_embedding = <<1>>]]
                 ELSE th' = [th EXCEPT ![p] =
                               ReturnDocs(Fail(f, IF outcome = "raise"
                                                  THEN "embedding_exception"
                                                  ELSE "embedding_empty"),
                                          <<>>)]
    /\ UNCHANGED <<env, pinecone_client, pinecone_index, created, calls, wvars, fvars, avars>>

\* query_params, lines 91-98: the call, top_k, whether a "filter" entry is
\* there (`if filter_dict:`, a dictionary with a key being true) and its value
QueryParams(top_k, filter_dict) ==
    <<"query", top_k, filter_dict # None, filter_dict>>

\* query_pinecone, lines 90-117: the query and the documents made of its matches
QueryIndex(p) ==
    /\ th[p].pc = "qp_query"
    /\ \E raises \in BOOLEAN, documents \in DocLists :
        LET f == Ext(th[p], QueryParams(th[p].top_k, th[p].filter_dict))
        IN  th' = [th EXCEPT ![p] =
                     IF pinecone_index = 0
                     THEN ReturnDocs(Fail(th[p], "query_exception"), <<>>)
                     ELSE IF raises THEN ReturnDocs(Fail(f, "query_exception"), <<>>)
                     ELSE IF documents = <<>> THEN ReturnDocs(Fail(f, "no_documents"), <<>>)
                     ELSE ReturnDocs(f, documents)]
    /\ UNCHANGED <<env, pinecone_client, pinecone_index, created, calls, wvars, fvars, avars>>

\* get_tekisho_solutions, lines 163-168: no documents, or the context block,
\* whose "\n".join raises on a text that is not a string
CheckDocs(p) ==
    /\ th[p].pc = "gts_docs"
    /\ th' = [th EXCEPT ![p] =
                IF th[p].relevant_docs = <<>> THEN ReturnFallback(th[p])
                ELSE IF \E i \in 1..Len(th[p].relevant_docs) :
                            th[p].relevant_docs[i] = None
                THEN Raise(Fail(th[p], "context_exception"), "context")
                ELSE [th[p] EXCEPT !.pc = "gts_llm"]]
    /\ UNCHANGED <<env, pinecone_client, pinecone_index, created, calls, wvars, fvars, avars>>

\* get_tekisho_solutions, lines 192-204: the completion and its stripped text
CallModel(p) ==
    /\ th[p].pc = "gts_llm"
    /\ \E raises \in BOOLEAN, content \in Contents :
        th' = [th EXCEPT ![p] =
                 IF ~openai_client THEN Raise(Fail(th[p], "model_exception"), "create")
                 ELSE LET f == Ext(th[p], <<"llm">>)
                      IN  IF raises THEN Raise(Fail(f, "model_exception"), "create")
                          ELSE IF content = None THEN Raise(Fail(f, "content_null"), "strip")
                          ELSE [f EXCEPT !.pc = "done", !.content = content,
                                         !.result = strip(content)]]
    /\ UNCHANGED <<env, pinecone_client, pinecone_index, created, calls, wvars, fvars, avars>>

\* texts, metadata dictionaries and ids passed to add_document_to_knowledge_base
AddTexts == {<<"d">>}
Metadatas ==
    {{}, {<<"text", <<"o">> >>}, {<<"industry", <<"i", "t">> >>}}
DocIds == {None, <<>>, <<"a">>}

\* the embeddings the API returns
Vectors == {<<1>>, <<2>>}

\* str(uuid.uuid4()): an id that no caller passes
Uuid == <<"u", "u", "i", "d">>

\* a slip: setdefault, an entry that is there is kept
SetDefault(d, key, value) ==
    IF \E e \in d : e[1] = key THEN d ELSE d \cup {<<key, value>>}

\* d[key] = value
SetItem(d, key, value) == {e \in d : e[1] # key} \cup {<<key, value>>}

\* add_document_to_knowledge_base is called
CallAdd(p) ==
    /\ p \in Requests
    /\ th[0].pc = "loaded"
    /\ th[p].pc = "idle"
    /\ calls > 0
    /\ calls' = calls - 1
    /\ \E text \in AddTexts, metadata \in Metadatas, is_dict \in BOOLEAN,
          doc_id \in DocIds :
        /\ ~is_dict => metadata = {}
        /\ th' = [th EXCEPT ![p] =
                    [Frame("add_check") EXCEPT
                        !.ret = "add",
                        !.text = text,
                        !.metadata = metadata,
                        !.mapping = metadata,
                        !.is_dict = is_dict,
                        !.doc_id = doc_id]]
    /\ UNCHANGED <<env, pinecone_client, pinecone_index, created, wvars, fvars, avars>>

\* add_document_to_knowledge_base, lines 245-247: `if not pinecone_index`
AddCheckIndex(p) ==
    /\ th[p].pc = "add_check"
    /\ th' = [th EXCEPT ![p] = IF pinecone_index = 0 THEN CallInit(th[p])
                               ELSE [th[p] EXCEPT !.pc = "add_embed"]]
    /\ UNCHANGED <<env, pinecone_client, pinecone_index, created, calls, wvars, fvars, avars>>

\* add_document_to_knowledge_base, lines 251-253, with get_embedding
AddEmbed(p) ==
    /\ th[p].pc = "add_embed"
    /\ \E outcome \in {"raise", "empty", "vector"}, vector \in Vectors :
        IF ~openai_client
        THEN th' = [th EXCEPT ![p] = ReturnAdded(Fail(th[p], "no_embedding_key"), FALSE)]
        ELSE LET f == Ext(th[p], <<"embed", th[p].text>>)
             IN  IF outcome = "vector"
                 THEN th' = [th EXCEPT ![p] = [f EXCEPT !.pc = "add_upsert",
                                                        !.embedding = vector]]
                 ELSE th' = [th EXCEPT ![p] =
                               ReturnAdded(Fail(f, IF outcome = "raise"
                                                   THEN "embedding_exception"
                                                   ELSE "embedding_empty"),
                                           FALSE)]
    /\ UNCHANGED <<env, pinecone_client, pinecone_index, created, calls, wvars, fvars, avars>>

\* line 256: metadata["text"] = text, on the object the caller passed
AssignText(f) == [f EXCEPT !.mapping = SetItem(@, "text", f.text)]

\* the vectors argument of line 264: one vector
UpsertVectors(f) ==
    << [id |-> IF Truthy(f.doc_id) THEN f.doc_id ELSE Uuid,
        values |-> f.embedding,
        metadata |-> f.mapping] >>

\* add_document_to_knowledge_base, lines 256-277: the metadata entry, the id,
\* the upsert
AddUpsert(p) ==
    /\ th[p].pc = "add_upsert"
    /\ \E raises \in BOOLEAN :
        th' = [th EXCEPT ![p] =
                 IF ~th[p].is_dict THEN RaiseAdd(Fail(th[p], "metadata_exception"), "setitem")
                 ELSE LET f == Ext(AssignText(th[p]),
                                   <<"upsert", UpsertVectors(AssignText(th[p]))>>)
                      IN  IF raises THEN RaiseAdd(Fail(f, "upsert_exception"), "upsert")
                          ELSE ReturnAdded(f, TRUE)]
    /\ UNCHANGED <<env, pinecone_client, pinecone_index, created, calls, wvars, fvars, avars>>

\* the caller has the value and the locals are gone
FinishAdd(p) ==
    /\ p \in Requests
    /\ th[p].pc = "add_done"
    /\ th' = [th EXCEPT ![p] = Frame("idle")]
    /\ UNCHANGED <<env, pinecone_client, pinecone_index, created, calls, wvars, fvars, avars>>

\* the caller has the result and the locals are gone; the thread is free for
\* the next call
Finish(p) ==
    /\ p \in Requests
    /\ th[p].pc = "done"
    /\ th' = [th EXCEPT ![p] = Frame("idle")]
    /\ UNCHANGED <<env, pinecone_client, pinecone_index, created, calls, wvars, fvars, avars>>

-----------------------------------------------------------------------------
(* combined_server.py: the endpoints /api/get_solutions and               *)
(* /api/format_numbers                                                     *)

\* a key the JSON body does not have
Missing == <<"missing">>

\* dict.get(key, default)
Get(value, default) == IF value = Missing THEN default ELSE value

\* the bodies sent to /api/get_solutions: no JSON object (or an empty one),
\* or an object in which "challenge" is missing, null, empty, blank, or a
\* text with or without blanks around it
ApiChallenges ==
    {Missing, None, <<>>, <<" ">>, <<"h", "r">>, <<" ", "h", "r", " ">>}
ApiIndustries == {Missing, <<"i", "t">>}
SolutionBodies ==
    {[json |-> FALSE, challenge |-> Missing, industry |-> Missing,
      wants_specific_metrics |-> Missing, text |-> Missing]}
    \cup {[json |-> TRUE, challenge |-> c, industry |-> i,
           wants_specific_metrics |-> Missing, text |-> Missing] :
              c \in ApiChallenges, i \in ApiIndustries}

\* the JSON values false and true
False == <<"F", "a", "l", "s", "e">>
True == <<"T", "r", "u", "e">>

\* bodies with a challenge and with and without "wants_specific_metrics"
MetricsFlags == {Missing, True}
MetricsBodies ==
    {[json |-> TRUE, challenge |-> <<"h", "r">>, industry |-> i,
      wants_specific_metrics |-> w, text |-> Missing] :
        i \in ApiIndustries, w \in MetricsFlags}

\* the bodies sent to /api/format_numbers
ApiTexts ==
    {Missing, None, <<>>, <<" ">>, <<"5", "%">>, <<" ", "5", "%", " ">>}
FormatBodies ==
    {[json |-> FALSE, challenge |-> Missing, industry |-> Missing,
      wants_specific_metrics |-> Missing, text |-> Missing]}
    \cup {[json |-> TRUE, challenge |-> Missing, industry |-> Missing,
           wants_specific_metrics |-> Missing, text |-> t] :
              t \in ApiTexts}

\* the solution of the inner except branch, lines 257-260
RagErrorFallback ==
    <<"O", "u", "r", " ", "A", "I", " ", "s", "o", "l", "u", "t", "i", "o",
      "n", "s", " ", "t", "y", "p", "i", "c", "a", "l", "l", "y", " ", "d",
      "e", "l", "i", "v", "e", "r", " ", "R", "O", "I", " ", "r", "a", "n",
      "g", "i", "n", "g", " ", "f", "r", "o", "m", " ", "o", "n", "e", " ",
      "f", "i", "f", "t", "y", " ", "t", "o", " ", "t", "h", "r", "e", "e",
      " ", "h", "u", "n", "d", "r", "e", "d", " ", "p", "e", "r", "c", "e",
      "n", "t", " ", "w", "i", "t", "h", "i", "n", " ", "t", "h", "e", " ",
      "f", "i", "r", "s", "t", " ", "s", "i", "x", " ", "t", "o", " ", "t",
      "w", "e", "l", "v", "e", " ", "w", "e", "e", "k", "s", ".", " ", "C",
      "o", "s", "t", " ", "s", "a", "v", "i", "n", "g", "s", " ", "u", "s",
      "u", "a", "l", "l", "y", " ", "f", "a", "l", "l", " ", "b", "e", "t",
      "w", "e", "e", "n", " ", "t", "w", "e", "n", "t", "y", " ", "f", "i",
      "v", "e", " ", "a", "n", "d", " ", "f", "o", "r", "t", "y", " ", "p",
      "e", "r", "c", "e", "n", "t", ",", " ", "w", "i", "t", "h", " ", "p",
      "r", "o", "d", "u", "c", "t", "i", "v", "i", "t", "y", " ", "i", "m",
      "p", "r", "o", "v", "e", "m", "e", "n", "t", "s", " ", "o", "f", " ",
      "f", "i", "f", "t", "y", " ", "t", "o", " ", "e", "i", "g", "h", "t",
      "y", " ", "p", "e", "r", "c", "e", "n", "t", ".", " ", "W", "o", "u",
      "l", "d", " ", "y", "o", "u", " ", "l", "i", "k", "e", " ", "m", "e",
      " ", "t", "o", " ", "c", "o", "n", "n", "e", "c", "t", " ", "y", "o",
      "u", " ", "w", "i", "t", "h", " ", "a", " ", "s", "o", "l", "u", "t",
      "i", "o", "n", " ", "a", "r", "c", "h", "i", "t", "e", "c", "t", " ",
      "t", "o", " ", "d", "i", "s", "c", "u", "s", "s", " ", "s", "p", "e",
      "c", "i", "f", "i", "c", " ", "n", "u", "m", "b", "e", "r", "s", " ",
      "f", "o", "r", " ", "y", "o", "u", "r", " ", "u", "s", "e", " ", "c",
      "a", "s", "e", "?">>

\* a slip in the validation: the field is tested as it was sent
required_field_unstripped(json, value) ==
    IF ~json THEN [status |-> 400, value |-> None]
    ELSE IF Get(value, <<>>) = None THEN [status |-> 500, value |-> None]
    ELSE IF Get(value, <<>>) = <<>> THEN [status |-> 400, value |-> None]
    ELSE [status |-> 0, value |-> Get(value, <<>>)]

\* lines 224-233 and 431-438: `if not data` (400), data.get(key, "").strip(),
\* whose AttributeError on null ends in the outer except (500), `if not
\* value` (400); status 0: the handler goes on with the value
required_field(json, value) ==
    IF ~json THEN [status |-> 400, value |-> None]
    ELSE IF Get(value, <<>>) = None THEN [status |-> 500, value |-> None]
    ELSE IF strip(Get(value, <<>>)) = <<>> THEN [status |-> 400, value |-> None]
    ELSE [status |-> 0, value |-> strip(Get(value, <<>>))]

\* the handler has returned its response
Respond(f, status, solution) ==
    [f EXCEPT !.pc = "responded", !.status = status, !.solution = solution]

\* a slip in the handler: a request that wants specific metrics has more
\* documents retrieved
SolutionsRequestMetrics(data, v) ==
    IF v.status # 0
    THEN Respond([Frame("responded") EXCEPT !.api = "get_solutions", !.data = data],
                 v.status, None)
    ELSE [Solutions(v.value, Get(data.industry, None),
                    IF Get(data.wants_specific_metrics, False) = True
                    THEN DefaultTopK + 2 ELSE DefaultTopK)
             EXCEPT !.api = "get_solutions", !.data = data,
                    !.wants_specific_metrics = Get(data.wants_specific_metrics, False)]

\* get_solutions_api, lines 224-243, for the request body `data` and the
\* validated challenge v: the error response, or the call of
\* rag.get_tekisho_solutions
SolutionsRequest(data, v) ==
    IF v.status # 0
    THEN Respond([Frame("responded") EXCEPT !.api = "get_solutions", !.data = data],
                 v.status, None)
    ELSE [Solutions(v.value, Get(data.industry, None), DefaultTopK)
             EXCEPT !.api = "get_solutions", !.data = data,
                    !.wants_specific_metrics = Get(data.wants_specific_metrics, False)]

\* a request with one of the bodies arrives at /api/get_solutions
SolutionsArrive(p, bodies) ==
    /\ p \in Requests
    /\ th[0].pc = "loaded"
    /\ th[p].pc = "idle"
    /\ calls > 0
    /\ calls' = calls - 1
    /\ \E data \in bodies :
        th' = [th EXCEPT ![p] =
                 SolutionsRequest(data, required_field(data.json, data.challenge))]
    /\ UNCHANGED <<env, pinecone_client, pinecone_index, created, wvars, fvars, avars>>

\* a request arrives at /api/get_solutions
GetSolutionsApi(p) == SolutionsArrive(p, SolutionBodies)

\* a request with a challenge arrives at /api/get_solutions
GetSolutionsMetrics(p) == SolutionsArrive(p, MetricsBodies)

\* a slip in the handler: the answer is returned as the model gave it
SolutionsRespondUnformatted(p) ==
    /\ th[p].pc = "done"
    /\ th[p].api = "get_solutions"
    /\ th' = [th EXCEPT ![p] =
                IF th[p].raised THEN Respond(th[p], 200, RagErrorFallback)
                ELSE Respond(th[p], 200, th[p].result)]
    /\ UNCHANGED <<env, pinecone_client, pinecone_index, created, calls, wvars, fvars, avars>>

\* get_solutions_api, lines 244-268: the answer is formatted and returned; an
\* exception of the call is answered with the fixed text
SolutionsRespond(p) ==
    /\ th[p].pc = "done"
    /\ th[p].api = "get_solutions"
    /\ th' = [th EXCEPT ![p] =
                IF th[p].raised THEN Respond(th[p], 200, RagErrorFallback)
                ELSE Respond(th[p], 200,
                             Plain(format_numbers_for_speech(th[p].result).out))]
    /\ UNCHANGED <<env, pinecone_client, pinecone_index, created, calls, wvars, fvars, avars>>

\* format_numbers_api, lines 431-450, for the body `data` and the validated
\* text v
FormatResponse(data, v) ==
    IF v.status # 0
    THEN Respond([Frame("responded") EXCEPT !.api = "format_numbers", !.data = data],
                 v.status, None)
    ELSE Respond([Frame("responded") EXCEPT !.api = "format_numbers", !.data = data],
                 200, Plain(format_numbers_for_speech(v.value).out))

\* a request arrives at /api/format_numbers and is answered
FormatNumbersApi(p) ==
    /\ p \in Requests
    /\ th[0].pc = "loaded"
    /\ th[p].pc = "idle"
    /\ calls > 0
    /\ calls' = calls - 1
    /\ \E data \in FormatBodies :
        th' = [th EXCEPT ![p] = FormatResponse(data, required_field(data.json, data.text))]
    /\ UNCHANGED <<env, pinecone_client, pinecone_index, created, wvars, fvars, avars>>

\* the response is sent; the thread is free for the next request
FinishApi(p) ==
    /\ p \in Requests
    /\ th[p].pc = "responded"
    /\ th' = [th EXCEPT ![p] = Frame("idle")]
    /\ UNCHANGED <<env, pinecone_client, pinecone_index, created, calls, wvars, fvars, avars>>

-----------------------------------------------------------------------------
(* agent.py: entrypoint, lines 324-386 *)

\* entrypoint at the place pc: whether avatar.conversation_id is set, whether
\* it has ever been set, how often avatar.stop() was invoked, and whether an
\* exception is on its way out
Entry(pc) ==
    [pc |-> pc, conversation_id |-> FALSE, started |-> FALSE, stops |-> 0,
     raising |-> FALSE]

\* avatar.start, line 348: it returns with the Tavus conversation made, or it
\* raises before or after the conversation was made
StartAvatar ==
    /\ entry.pc = "avatar_start"
    /\ \E outcome \in {"ok", "raise_before", "raise_after"} :
        entry' = [entry EXCEPT
                    !.conversation_id = outcome # "raise_before",
                    !.started = outcome # "raise_before",
                    !.pc = IF outcome = "ok" THEN "session_start" ELSE "except"]
    /\ UNCHANGED <<wvars, fvars, rvars, agent, chat>>

\* session.start, lines 353-363: from now on the session calls the tools of
\* the agent
StartSession ==
    /\ entry.pc = "session_start"
    /\ \E raises \in BOOLEAN :
        /\ entry' = [entry EXCEPT !.pc = IF raises THEN "except" ELSE "generate_reply"]
        /\ agent' = [agent EXCEPT !.pc = IF raises THEN @ ELSE "ready"]
    /\ UNCHANGED <<wvars, fvars, rvars, chat>>

\* session.generate_reply, line 367
GenerateReply ==
    /\ entry.pc = "generate_reply"
    /\ \E raises \in BOOLEAN :
        entry' = [entry EXCEPT !.pc = IF raises THEN "except" ELSE "finally"]
    /\ UNCHANGED <<wvars, fvars, rvars, agent, chat>>

\* lines 372-375 and 381-384: avatar.stop() is awaited when
\* avatar.conversation_id is set; what it raises is caught. Whether stop()
\* clears conversation_id is decided by the Tavus plugin: `cleared`
Cleanup(e, cleared) ==
    IF e.conversation_id
    THEN [e EXCEPT !.stops = @ + 1, !.conversation_id = ~cleared]
    ELSE e

\* the except block, lines 369-377: the cleanup, then `raise`
ExceptBlock ==
    /\ entry.pc = "except"
    /\ \E cleared \in BOOLEAN :
        entry' = [Cleanup(entry, cleared) EXCEPT !.pc = "finally", !.raising = TRUE]
    /\ UNCHANGED <<wvars, fvars, rvars, agent, chat>>

\* the finally block, lines 378-385, after which entrypoint returns or the
\* exception leaves it
FinallyBlock ==
    /\ entry.pc = "finally"
    /\ \E cleared \in BOOLEAN :
        entry' = [Cleanup(entry, cleared) EXCEPT !.pc = "exit"]
    /\ UNCHANGED <<wvars, fvars, rvars, agent, chat>>

-----------------------------------------------------------------------------
(* agent.py: the Assistant and its tools, lines 37-319 *)

\* an HTTP request to the service API that was not sent
NoRequest ==
    [path |-> "", challenge |-> <<"">>, industry |-> <<"">>, flag |-> <<"">>,
     reason |-> <<"">>, client_name |-> <<"">>, company |-> <<"">>,
     challenges |-> <<>>, chat_messages |-> <<>>]

\* Assistant.__init__, lines 40-53: the conversation context; `left` tool
\* calls are still to come, `tool` is the last one called, `sent` the request
\* it posted and `reply` what it returned; `found` is the industry of the
\* client the last successful search found (history)
Assistant(pc) ==
    [pc |-> pc,
     conversation_context |->
        [client_name |-> <<"">>, company |-> <<"">>, industry |-> <<"">>,
         mail_id |-> <<"">>, phone_no |-> <<"">>, company_summary |-> <<"">>,
         research_about_company |-> <<"">>, challenges_discussed |-> <<>>,
         greeting_done |-> FALSE, identity_confirmed |-> FALSE],
     left |-> 0,
     tool |-> "none",
     argument |-> <<"">>,
     sent |-> NoRequest,
     reply |-> <<"">>,
     found |-> <<"missing">>]

\* str(x) inside an f-string
Str(x) == IF x = None THEN <<"N", "o", "n", "e">> ELSE x

\* dict.get(key, default): the default is returned only when the key is absent
DictGet(d, key, default) == IF key \in DOMAIN d THEN d[key] ELSE default

\* what a request to the service API comes to: requests.post raises, the
\* status is not 200, "success" is false or missing, or the call succeeded
ApiOutcomes == {"exception", "status", "no_success", "success"}

\* the client records the search can find: client_data of /api/search_client
ClientRecords ==
    {[name |-> <<"a", "l">>, company |-> <<"c", "o">>, industry |-> i] :
        i \in {None, <<>>, <<"i", "t">>, <<"e", "d">>}}

\* the industry arguments of the get_tekisho_solutions tool
ToolIndustries == {None, <<>>, <<"f", "i">>}

\* a tool was called: the budget, the name, the request and the returned text
Called(a, tool, sent, reply) ==
    [a EXCEPT !.left = @ - 1, !.tool = tool, !.sent = sent, !.reply = reply]

\* lines 81-92: conversation_context.update with the client found
ContextUpdate(context, client_data) ==
    [record_id |-> None,
     client_name |-> client_data.name,
     company |-> client_data.company,
     mail_id |-> None,
     phone_no |-> None,
     company_summary |-> None,
     research_about_company |-> client_data.industry,
     identity_confirmed |-> TRUE] @@ context

\* search_client_in_database, lines 61-103: the context is updated when the
\* API answers 200 with success, client_found and client_data
SearchClient ==
    /\ agent.pc = "ready"
    /\ agent.left > 0
    /\ \E outcome \in ApiOutcomes, client_found \in BOOLEAN, client_data \in ClientRecords :
        agent' =
            IF outcome = "success" /\ client_found
            THEN [Called(agent, "search", NoRequest, None) EXCEPT
                     !.conversation_context = ContextUpdate(@, client_data),
                     !.found = client_data.industry]
            ELSE Called(agent, "search", NoRequest, None)
    /\ UNCHANGED <<wvars, fvars, rvars, entry, chat>>

\* a slip: the key "industry" of the context is read, which no search sets
StoredIndustryKey(context) == context.industry

\* line 124: conversation_context.get("research_about_company")
StoredIndustry(context) == DictGet(context, "research_about_company", None)

\* lines 124-125: the industry of the context stands in for a missing one
SentIndustry(industry, context) ==
    IF ~Truthy(industry) /\ Truthy(StoredIndustry(context))
    THEN StoredIndustry(context)
    ELSE industry

\* the request of lines 130-139
SolutionsPost(challenge, industry, flag) ==
    [NoRequest EXCEPT !.path = "/api/get_solutions", !.challenge = challenge,
                      !.industry = industry, !.flag = flag]

\* the get_tekisho_solutions tool, lines 109-154
ToolSolutions ==
    /\ agent.pc = "ready"
    /\ agent.left > 0
    /\ \E industry \in ToolIndustries, flag \in BOOLEAN, outcome \in ApiOutcomes :
        agent' =
            [Called(agent, "solutions",
                    SolutionsPost(<<"h", "r">>,
                                  SentIndustry(industry, agent.conversation_context),
                                  flag),
                    IF outcome = "success" THEN <<"o", "k">> ELSE <<"f", "b">>)
                EXCEPT !.argument = industry,
                       !.conversation_context.challenges_discussed =
                            Append(@, <<"h", "r">>)]
    /\ UNCHANGED <<wvars, fvars, rvars, entry, chat>>

FU_connect ==
    <<"I", "'", "d", " ", "l", "o", "v", "e", " ", "t", "o", " ", "c", "o",
      "n", "n", "e", "c", "t", " ", "y", "o", "u", " ", "w", "i", "t", "h",
      " ", "o", "n", "e", " ", "o", "f", " ", "o", "u", "r", " ", "s", "o",
      "l", "u", "t", "i", "o", "n", " ", "a", "r", "c", "h", "i", "t", "e",
      "c", "t", "s", " ", "w", "h", "o", " ", "c", "a", "n", " ">>

FU_for ==
    <<" ", "s", "p", "e", "c", "i", "f", "i", "c", "a", "l", "l", "y", " ",
      "f", "o", "r", " ">>

FU_helpful ==
    <<".", " ", "W", "o", "u", "l", "d", " ", "t", "h", "a", "t", " ", "b",
      "e", " ", "h", "e", "l", "p", "f", "u", "l", ",", " ">>

\* the fallback of schedule_followup, lines 221-222
FollowupFallback(reason, company, name) ==
    FU_connect \o reason \o FU_for \o Str(company) \o FU_helpful \o Str(name) \o <<"?">>

\* the request of lines 203-210
FollowupPost(reason, name, company) ==
    [NoRequest EXCEPT !.path = "/api/schedule_followup", !.reason = reason,
                      !.client_name = name, !.company = company]

\* schedule_followup for the name and the company of lines 196-197
Followup(a, name, company, outcome) ==
    Called(a, "followup",
           FollowupPost(<<"t", "a", "l", "k">>, name, company),
           IF outcome = "success" THEN <<"o", "k">>
           ELSE IF outcome = "exception" THEN <<"f", "b">>
           ELSE FollowupFallback(<<"t", "a", "l", "k">>, company, name))

\* schedule_followup, lines 191-226
ScheduleFollowup ==
    /\ agent.pc = "ready"
    /\ agent.left > 0
    /\ \E outcome \in ApiOutcomes :
        agent' = Followup(agent,
                          DictGet(agent.conversation_context, "client_name",
                                  <<"t", "h", "e", "r", "e">>),
                          DictGet(agent.conversation_context, "company",
                                  <<"y", "o", "u", "r", " ", "c", "o", "m", "p", "a", "n", "y">>),
                          outcome)
    /\ UNCHANGED <<wvars, fvars, rvars, entry, chat>>

SU_great ==
    <<"I", "t", "'", "s", " ", "b", "e", "e", "n", " ", "g", "r", "e", "a",
      "t", " ", "t", "a", "l", "k", "i", "n", "g", " ", "w", "i", "t", "h",
      " ", "y", "o", "u", ",", " ">>

SU_help ==
    <<"!", " ", "W", "e", "'", "v", "e", " ", "d", "i", "s", "c", "u", "s",
      "s", "e", "d", " ", "h", "o", "w", " ", "T", "e", "k", "i", "s", "h",
      "o", " ", "c", "a", "n", " ", "h", "e", "l", "p", " ">>

SU_thanks ==
    <<"T", "h", "a", "n", "k", " ", "y", "o", "u", " ", "f", "o", "r", " ",
      "s", "h", "a", "r", "i", "n", "g", " ", "a", "b", "o", "u", "t", " ">>

SU_goals ==
    <<"'", "s", " ", "g", "o", "a", "l", "s", ".", " ">>

SU_connect ==
    <<"I", " ", "c", "a", "n", " ", "c", "o", "n", "n", "e", "c", "t", " ",
      "y", "o", "u", " ", "w", "i", "t", "h", " ", "o", "u", "r", " ", "t",
      "e", "a", "m", " ", "t", "o", " ", "d", "i", "v", "e", " ", "d", "e",
      "e", "p", "e", "r", " ", "i", "n", "t", "o", " ", "s", "o", "l", "u",
      "t", "i", "o", "n", "s", ".", " ", "W", "o", "u", "l", "d", " ", "y",
      "o", "u", " ", "l", "i", "k", "e", " ", "m", "e", " ", "t", "o", " ",
      "a", "r", "r", "a", "n", "g", "e", " ", "t", "h", "a", "t", "?">>

\* ', '.join(challenges[:2])
JoinTwo(challenges) ==
    IF Len(challenges) = 1 THEN challenges[1]
    ELSE challenges[1] \o <<",", " ">> \o challenges[2]

\* the fallback of summarize_conversation, lines 260-268
SummaryFallback(name, company, challenges) ==
    (IF challenges # <<>>
     THEN SU_great \o Str(name) \o SU_help \o Str(company) \o <<" ", "w", "i", "t", "h", " ">>
          \o JoinTwo(challenges) \o <<".", " ">>
     ELSE SU_thanks \o Str(company) \o SU_goals)
    \o SU_connect

\* the request of lines 243-250
SummaryPost(name, company, challenges) ==
    [NoRequest EXCEPT !.path = "/api/summarize_conversation", !.client_name = name,
                      !.company = company, !.challenges = challenges]

\* summarize_conversation for the name and the company of lines 236-237
Summary(a, name, company, outcome) ==
    Called(a, "summary",
           SummaryPost(name, company, a.conversation_context.challenges_discussed),
           IF outcome = "success" THEN <<"o", "k">>
           ELSE IF outcome = "exception" THEN <<"f", "b">>
           ELSE SummaryFallback(name, company,
                                a.conversation_context.challenges_discussed))

\* summarize_conversation, lines 231-272
SummarizeConversation ==
    /\ agent.pc = "ready"
    /\ agent.left > 0
    /\ \E outcome \in ApiOutcomes :
        agent' = Summary(agent,
                         DictGet(agent.conversation_context, "client_name",
                                 <<"y", "o", "u">>),
                         DictGet(agent.conversation_context, "company",
                                 <<"y", "o", "u", "r", " ", "o", "r", "g", "a", "n", "i",
                                   "z", "a", "t", "i", "o", "n">>),
                         outcome)
    /\ UNCHANGED <<wvars, fvars, rvars, entry, chat>>

\* the request of lines 295-302
StorePost(name, company, chat_messages) ==
    [NoRequest EXCEPT !.path = "/api/store_chat_history", !.client_name = name,
                      !.company = company, !.chat_messages = chat_messages]

\* store_chat_history, lines 277-319: it returns a dictionary, no text
StoreChatHistory ==
    /\ agent.pc = "ready"
    /\ agent.left > 0
    /\ \E outcome \in ApiOutcomes :
        agent' = Called(agent, "store",
                        StorePost(DictGet(agent.conversation_context, "client_name",
                                          <<"U", "n", "k", "n", "o", "w", "n">>),
                                  DictGet(agent.conversation_context, "company",
                                          <<"U", "n", "k", "n", "o", "w", "n", " ", "C", "o",
                                            "m", "p", "a", "n", "y">>),
                                  << <<"h", "i">> >>),
                        None)
    /\ UNCHANGED <<wvars, fvars, rvars, entry, chat>>

-----------------------------------------------------------------------------
(* combined_server.py: the endpoints that save a chat history, with          *)
(* SupabaseClient.save_chat_history                                          *)

Unknown == <<"U", "n", "k", "n", "o", "w", "n">>

UnknownCompany ==
    <<"U", "n", "k", "n", "o", "w", "n", " ", "C", "o", "m", "p", "a", "n", "y">>

\* a request to one of the three endpoints at the place pc: its body, the name
\* and the company handed to save_chat_history, what save_chat_history
\* returned ("none" before the call, "record" for the saved row, "error" for
\* a dictionary with the key "error"), and the response; `left` requests are
\* still to come
Chat(pc) ==
    [pc |-> pc, endpoint |-> "",
     data |-> [json |-> FALSE, name |-> <<"">>, company |-> <<"">>,
               chat_history |-> <<"">>],
     name |-> <<"">>, company |-> <<"">>,
     result |-> "none", status |-> 0, success |-> FALSE, left |-> 0]

ChatOff == Chat("off")

ChatEndpoints == {"/api/store_chat_history", "/save_chat", "/save-conversation"}

\* the bodies sent: no JSON object, or one with the name, the company and the
\* list of messages missing, null, empty or given
ChatBodies ==
    {[json |-> FALSE, name |-> Missing, company |-> Missing, chat_history |-> Missing]}
    \cup {[json |-> TRUE, name |-> n, company |-> c, chat_history |-> h] :
              n \in {Missing, None, <<"a", "l">>},
              c \in {Missing, <<"c", "o">>},
              h \in {Missing, <<>>, <<"hi">>}}

\* the handler answers without having saved
ChatAnswer(c, status) == [c EXCEPT !.pc = "responded", !.status = status]

\* the handler goes on to get_supabase_client() with the name and the company
ChatAccept(c, name, company) ==
    [c EXCEPT !.pc = "client", !.name = name, !.company = company]

\* store_chat_history_api, lines 386-395: the fields are stripped, which
\* raises on null (lines 420-424)
StoreValidate(c) ==
    IF ~c.data.json THEN ChatAnswer(c, 400)
    ELSE IF Get(c.data.name, Unknown) = None THEN ChatAnswer(c, 500)
    ELSE IF Get(c.data.chat_history, <<>>) = <<>> THEN ChatAnswer(c, 400)
    ELSE ChatAccept(c, strip(Get(c.data.name, Unknown)),
                    strip(Get(c.data.company, UnknownCompany)))

\* save_chat, lines 581-591
SaveChatValidate(c) ==
    IF ~c.data.json THEN ChatAnswer(c, 400)
    ELSE IF Get(c.data.chat_history, <<>>) = <<>> THEN ChatAnswer(c, 400)
    ELSE ChatAccept(c, Get(c.data.name, Unknown), Get(c.data.company, UnknownCompany))

\* save_conversation, lines 469-489: the name and the company are what
\* extract_user_info_from_chat returns, "Unknown" when it found none
ConversationValidate(c, name, company) ==
    IF ~c.data.json \/ c.data.chat_history = Missing THEN ChatAnswer(c, 400)
    ELSE IF c.data.chat_history = <<>> THEN ChatAnswer(c, 400)
    ELSE ChatAccept(c, name, company)

\* a request arrives at one of the three endpoints and is validated
ChatRequest ==
    /\ chat.pc = "idle"
    /\ chat.left > 0
    /\ \E endpoint \in ChatEndpoints, data \in ChatBodies,
          name \in {Unknown, <<"a", "l">>}, company \in {Unknown} :
        /\ endpoint # "/save-conversation" => name = Unknown
        /\ chat' = IF endpoint = "/api/store_chat_history"
                   THEN StoreValidate([Chat("idle") EXCEPT !.endpoint = endpoint,
                                           !.data = data, !.left = chat.left - 1])
                   ELSE IF endpoint = "/save_chat"
                   THEN SaveChatValidate([Chat("idle") EXCEPT !.endpoint = endpoint,
                                              !.data = data, !.left = chat.left - 1])
                   ELSE ConversationValidate([Chat("idle") EXCEPT !.endpoint = endpoint,
                                                  !.data = data, !.left = chat.left - 1],
                                             name, company)
    /\ UNCHANGED <<wvars, fvars, rvars, entry, agent>>

\* get_supabase_client(), supabase_client.py lines 181-186: SupabaseClient()
\* raises without SUPABASE_URL or SUPABASE_KEY; the handlers answer 500
GetSupabaseClient ==
    /\ chat.pc = "client"
    /\ \E raises \in BOOLEAN :
        chat' = IF raises THEN ChatAnswer(chat, 500) ELSE [chat EXCEPT !.pc = "saving"]
    /\ UNCHANGED <<wvars, fvars, rvars, entry, agent>>

\* what the insert of save_chat_history comes to: it raises with a row-level
\* security message or another one, it returns no data, json.dumps raises, or
\* the row is saved
SaveOutcomes == {"rls", "insert_error", "no_data", "exception", "saved"}

\* save_chat_history, supabase_client.py lines 33-77: the saved row, or a
\* dictionary with the key "error"
save_chat_history(outcome) == IF outcome = "saved" THEN "record" ELSE "error"

\* the handler awaits save_chat_history (lines 400-404, 597; lines 497-542,
\* where an exception of the event loop has the call made again on a new
\* loop, whose exception leaves the handler through the outer except)
SaveChatHistory ==
    /\ chat.pc = "saving"
    /\ \E outcome \in SaveOutcomes, loop_raises \in BOOLEAN :
        chat' = IF chat.endpoint = "/save-conversation" /\ loop_raises
                THEN ChatAnswer(chat, 500)
                ELSE [chat EXCEPT !.pc = "saved", !.result = save_chat_history(outcome)]
    /\ UNCHANGED <<wvars, fvars, rvars, entry, agent>>

\* lines 406-418 and 599-609: `if "error" in result` answers 500
SavedResponse(c) ==
    IF c.result = "error" THEN ChatAnswer(c, 500)
    ELSE [ChatAnswer(c, 200) EXCEPT !.success = TRUE]

\* save_conversation, lines 543-551: the response after the save
ConversationResponse(c) == [ChatAnswer(c, 200) EXCEPT !.success = TRUE]

\* the handler answers after save_chat_history returned
ChatRespond ==
    /\ chat.pc = "saved"
    /\ chat' = IF chat.endpoint = "/save-conversation" THEN ConversationResponse(chat)
               ELSE SavedResponse(chat)
    /\ UNCHANGED <<wvars, fvars, rvars, entry, agent>>

\* the response is sent
ChatFinish ==
    /\ chat.pc = "responded"
    /\ chat' = [Chat("idle") EXCEPT !.left = chat.left]
    /\ UNCHANGED <<wvars, fvars, rvars, entry, agent>>

-----------------------------------------------------------------------------
(* Inputs *)

\* str(n) for n >= 0
RECURSIVE DigitString(_)
DigitString(n) ==
    IF n < 10 THEN <<Digits[n + 1]>>
    ELSE DigitString(n \div 10) \o <<Digits[(n % 10) + 1]>>

Zeros(k) == [i \in 1..k |-> "0"]

\* the pieces input texts are made of
Tokens ==
    << <<"0">>, <<"1", "5", "0", "0">>, <<"-", "7">>, <<"%">>,
       <<" ", "w", "e", "e", "k", "s">> >>

RECURSIVE Flatten(_)
Flatten(ts) == IF ts = <<>> THEN <<>> ELSE Tokens[Head(ts)] \o Flatten(Tail(ts))

\* the examples of the docstring (lines 35-37)
Doc_150_200 ==
    <<"1", "5", "0", "-", "2", "0", "0", "%">>

Doc_25_35 ==
    <<"2", "5", "-", "3", "5", "%">>

Doc_6_8_weeks ==
    <<"6", "-", "8", " ", "w", "e", "e", "k", "s">>

\* the examples of the specification
Ex_ROI ==
    <<"O", "u", "r", " ", "R", "O", "I", " ", "i", "s", " ", "1", "5", "0",
      "-", "2", "0", "0", "%", ".">>

Ex_Takes ==
    <<"T", "a", "k", "e", "s", " ", "6", "-", "8", " ", "w", "e", "e", "k",
      "s", ".">>

Ex_Savings ==
    <<"S", "a", "v", "i", "n", "g", "s", " ", "o", "f", " ", "2", "5", "%",
      ".">>

Ex_1500 ==
    <<"1", "5", "0", "0", "%">>

Ex_1000_2000 ==
    <<"1", "0", "0", "0", "-", "2", "0", "0", "0", "%">>

Ex_1000_2000_weeks ==
    <<"1", "0", "0", "0", "-", "2", "0", "0", "0", " ", "w", "e", "e", "k",
      "s">>

\* texts none of the patterns matches: a unit without whitespace before it,
\* a decimal
Ex_6_8weeks ==
    <<"6", "-", "8", "w", "e", "e", "k", "s">>

Ex_decimal ==
    <<"3", ".", "5">>

Examples ==
    {Doc_150_200, Doc_25_35, Doc_6_8_weeks, Ex_ROI, Ex_Takes, Ex_Savings,
     Ex_1500, Ex_1000_2000, Ex_1000_2000_weeks, Ex_6_8weeks, Ex_decimal}

\* every concatenation of at most MaxLen pieces, and the examples
Inputs ==
    {Flatten(ts) : ts \in UNION {[1..n -> 1..Len(Tokens)] : n \in 0..MaxLen}}
    \cup Examples

-----------------------------------------------------------------------------
(* The state of a part of the program that a specification leaves out *)

IdleWords == w_n = 0 /\ w_in = <<>> /\ w_out = <<>> /\ w_pc = "idle"

NoResult == [p1 |-> <<>>, p2 |-> <<>>, out |-> <<>>, re |-> FALSE]

IdleFormat == f_in = <<>> /\ f_res = NoResult /\ f_twice = <<>> /\ f_pc = "idle"

AgentOff == Assistant("off")

IdleAgent == entry = Entry("off") /\ agent = AgentOff /\ chat = ChatOff

IdleRag ==
    /\ OPENAI_API_KEY = FALSE /\ PINECONE_API_KEY = FALSE /\ pinecone_lib = FALSE
    /\ openai_client = FALSE
    /\ pinecone_client = 0 /\ pinecone_index = 0
    /\ created = [clients |-> 0, indexes |-> 0]
    /\ calls = 0
    /\ th = [p \in 0..NumThreads |-> Frame("off")]

-----------------------------------------------------------------------------
(* Calls of number_to_words *)

InitWords ==
    /\ w_n \in 0..MaxNum
    /\ \E pad \in 0..MaxPad : w_in = Zeros(pad) \o DigitString(w_n)
    /\ w_out = <<>>
    /\ w_pc = "input"
    /\ IdleFormat /\ IdleRag /\ IdleAgent

CallNumberToWords ==
    /\ w_pc = "input"
    /\ w_out' = number_to_words(w_in)
    /\ w_pc' = "done"
    /\ UNCHANGED <<w_n, w_in, fvars, rvars, avars>>

-----------------------------------------------------------------------------
(* Calls of format_numbers_for_speech *)

InitFormat ==
    /\ f_in \in Inputs
    /\ f_res = NoResult
    /\ f_twice = <<>>
    /\ f_pc = "input"
    /\ IdleWords /\ IdleRag /\ IdleAgent

\* format_numbers_for_speech(f_in)
Format ==
    /\ f_pc = "input"
    /\ f_res' = format_numbers_for_speech(f_in)
    /\ f_pc' = "once"
    /\ UNCHANGED <<f_in, f_twice, wvars, rvars, avars>>

\* format_numbers_for_speech applied to the text the first call returned
FormatAgain ==
    /\ f_pc = "once"
    /\ f_twice' = Plain(format_numbers_for_speech(Plain(f_res.out)).out)
    /\ f_pc' = "twice"
    /\ UNCHANGED <<f_in, f_res, wvars, rvars, avars>>

-----------------------------------------------------------------------------
(* The server: rag.py is imported, then requests are taken *)

\* the module is being imported: lines 13-25 are done, line 280 is next; the
\* server will serve `budget` calls on `threads` request threads
Importing(threads, budget) ==
    /\ OPENAI_API_KEY \in BOOLEAN
    /\ PINECONE_API_KEY \in BOOLEAN
    /\ pinecone_lib \in BOOLEAN
    /\ openai_client = OPENAI_API_KEY
    /\ pinecone_client = 0 /\ pinecone_index = 0
    /\ created = [clients |-> 0, indexes |-> 0]
    /\ calls = budget
    /\ th = [p \in 0..threads |-> IF p = 0 THEN Frame("init_client") ELSE Frame("idle")]
    /\ IdleWords /\ IdleFormat /\ IdleAgent

Init == Importing(NumThreads, MaxCalls)

\* one request thread and one call more, so that two calls can overlap (the
\* server of line 697 handles each request in a thread of its own)
InitRace == Importing(NumThreads + 1, MaxCalls + 1)

Next ==
    \E p \in Procs :
        \/ InitClient(p)
        \/ InitIndex(p)
        \/ CallSolutions(p)
        \/ QueryCheckIndex(p)
        \/ QueryEmbed(p)
        \/ QueryIndex(p)
        \/ CheckDocs(p)
        \/ CallModel(p)
        \/ Finish(p)

\* the server waits for requests that save a chat history
InitChat ==
    /\ chat = [Chat("idle") EXCEPT !.left = MaxCalls]
    /\ entry = Entry("off") /\ agent = AgentOff
    /\ IdleWords /\ IdleFormat /\ IdleRag

NextChat == ChatRequest \/ GetSupabaseClient \/ SaveChatHistory \/ ChatRespond \/ ChatFinish

\* entrypoint is called: the agent of line 329 is made, line 348 is next
InitAgent ==
    /\ entry = Entry("avatar_start")
    /\ agent = [Assistant("created") EXCEPT !.left = MaxTools]
    /\ chat = ChatOff
    /\ IdleWords /\ IdleFormat /\ IdleRag

NextAgent ==
    \/ StartAvatar
    \/ StartSession
    \/ GenerateReply
    \/ ExceptBlock
    \/ FinallyBlock
    \/ SearchClient
    \/ ToolSolutions
    \/ ScheduleFollowup
    \/ SummarizeConversation
    \/ StoreChatHistory

\* the pieces the challenges and industries below are made of
FallbackTokens ==
    {<<"h", "r">>, <<"5">>, <<"%">>, <<"-">>, <<"6", "-", "8">>,
     <<" ", "d", "a", "y", "s">>, <<"1", "2", " ">>}

\* challenges with and without a pattern, and such that end or begin like one
FallbackChallenges ==
    FallbackTokens \cup {a \o b : a \in FallbackTokens, b \in FallbackTokens}

FallbackIndustries ==
    {Missing, <<>>, <<"i", "t">>, <<"6", "-", "8">>, <<"5", "%">>, <<"%">>}

\* get_tekisho_solutions, called for the request body `data`, has found no
\* PINECONE_API_KEY (lines 32-34, 82) and returned the fallback (line 165)
FallbackReturned(data) ==
    ReturnFallback(
        ReturnDocs(
            Fail(CallInit(SolutionsRequest(data, required_field(data.json, data.challenge))),
                 "no_credentials"),
            <<>>))

\* the server runs without credentials; a request to /api/get_solutions is
\* at line 244 with the fallback text as answer
InitFallback ==
    /\ OPENAI_API_KEY = FALSE /\ PINECONE_API_KEY = FALSE /\ pinecone_lib = FALSE
    /\ openai_client = FALSE
    /\ pinecone_client = 0 /\ pinecone_index = 0
    /\ created = [clients |-> 0, indexes |-> 0]
    /\ calls = 0
    /\ \E c \in FallbackChallenges, i \in FallbackIndustries :
        th = [p \in 0..NumThreads |->
                IF p = 0 THEN Fail(Frame("loaded"), "no_credentials")
                ELSE IF p = 1
                THEN FallbackReturned([json |-> TRUE, challenge |-> c, industry |-> i,
                                       wants_specific_metrics |-> Missing,
                                       text |-> Missing])
                ELSE Frame("idle")]
    /\ IdleWords /\ IdleFormat /\ IdleAgent

NextFallback == \E p \in Procs : SolutionsRespond(p) \/ FinishApi(p)

\* the module is imported, then the server serves requests to
\* /api/get_solutions and /api/format_numbers
NextApi ==
    \E p \in Procs :
        \/ InitClient(p)
        \/ InitIndex(p)
        \/ GetSolutionsApi(p)
        \/ QueryCheckIndex(p)
        \/ QueryEmbed(p)
        \/ QueryIndex(p)
        \/ CheckDocs(p)
        \/ CallModel(p)
        \/ SolutionsRespond(p)
        \/ FormatNumbersApi(p)
        \/ FinishApi(p)

\* the module is imported, then the server takes calls of
\* add_document_to_knowledge_base
\* the module body after initialize_pinecone() returned True (line 280)
Loaded ==
    InitReturn(Ext(Ext(Ext(Frame("init_client"), <<"Pinecone">>), <<"list_indexes">>),
                   <<"Index">>),
               TRUE)

\* the module has been imported on a server that has both keys and the
\* pinecone package, and the index is there; two request threads will
\* serve two requests
InitMetrics ==
    /\ OPENAI_API_KEY = TRUE /\ PINECONE_API_KEY = TRUE /\ pinecone_lib = TRUE
    /\ openai_client = TRUE
    /\ pinecone_client = 1 /\ pinecone_index = 1
    /\ created = [clients |-> 1, indexes |-> 1]
    /\ calls = MaxCalls + 1
    /\ th = [p \in 0..(NumThreads + 1) |-> IF p = 0 THEN Loaded ELSE Frame("idle")]
    /\ IdleWords /\ IdleFormat /\ IdleAgent

\* the server serves requests to /api/get_solutions, each in a thread of its
\* own
NextMetrics ==
    \E p \in Procs :
        \/ GetSolutionsMetrics(p)
        \/ QueryCheckIndex(p)
        \/ QueryEmbed(p)
        \/ QueryIndex(p)
        \/ CheckDocs(p)
        \/ CallModel(p)
        \/ SolutionsRespond(p)
        \/ FinishApi(p)

NextAdd ==
    \E p \in Procs :
        \/ InitClient(p)
        \/ InitIndex(p)
        \/ CallAdd(p)
        \/ AddCheckIndex(p)
        \/ AddEmbed(p)
        \/ AddUpsert(p)
        \/ FinishAdd(p)

-----------------------------------------------------------------------------
(* Specifications *)

vars == <<wvars, fvars, rvars, avars>>

\* the calls of number_to_words
SpecWords == InitWords /\ [][CallNumberToWords]_vars

NextFormat == Format \/ FormatAgain

\* the calls of format_numbers_for_speech
SpecFormat == InitFormat /\ [][NextFormat]_vars

\* the import of rag.py and the calls of get_tekisho_solutions
Spec == Init /\ [][Next]_vars

\* the import of rag.py and calls of get_tekisho_solutions that overlap
SpecRace == InitRace /\ [][Next]_vars

\* the import of rag.py and the calls of add_document_to_knowledge_base
SpecAdd == Init /\ [][NextAdd]_vars

\* two requests to /api/get_solutions at a time
SpecMetrics == InitMetrics /\ [][NextMetrics]_vars

\* the requests that save a chat history
SpecChat == InitChat /\ [][NextChat]_vars

\* one run of entrypoint and the tool calls of its session
SpecAgent == InitAgent /\ [][NextAgent]_vars

\* /api/get_solutions answers requests with the fallback text
SpecFallback == InitFallback /\ [][NextFallback]_vars

\* the server: rag.py is imported, then requests to the two endpoints are served
SpecApi == Init /\ [][NextApi]_vars

-----------------------------------------------------------------------------
(* Reference spelling and the occurrences of the patterns in an input text, *)
(* as the specification words them                                          *)

\* the spelling of n in 1..99
RefUnderHundred(n) ==
    IF n <= 9 THEN ones[n + 1]
    ELSE IF n <= 19 THEN teens[n - 9]
    ELSE tens[(n \div 10) + 1]
         \o (IF n % 10 = 0 THEN <<>> ELSE <<" ">> \o ones[(n % 10) + 1])

\* the spelling of n in 0..999
RefSpelling(n) ==
    IF n = 0 THEN <<"z", "e", "r", "o">>
    ELSE IF n <= 99 THEN RefUnderHundred(n)
    ELSE ones[(n \div 100) + 1] \o <<" ", "h", "u", "n", "d", "r", "e", "d">>
         \o (IF n % 100 = 0 THEN <<>>
             ELSE <<" ", "a", "n", "d", " ">> \o RefUnderHundred(n % 100))

SpotChecks ==
    { <<0, <<"z", "e", "r", "o">>>>,
      <<7, <<"s", "e", "v", "e", "n">>>>,
      <<15, <<"f", "i", "f", "t", "e", "e", "n">>>>,
      <<20, <<"t", "w", "e", "n", "t", "y">>>>,
      <<35, <<"t", "h", "i", "r", "t", "y", " ", "f", "i", "v", "e">>>>,
      <<100, <<"o", "n", "e", " ", "h", "u", "n", "d", "r", "e", "d">>>>,
      <<150, <<"o", "n", "e", " ", "h", "u", "n", "d", "r", "e", "d", " ", "a",
              "n", "d", " ", "f", "i", "f", "t", "y">>>>,
      <<999, <<"n", "i", "n", "e", " ", "h", "u", "n", "d", "r", "e", "d", " ",
              "a", "n", "d", " ", "n", "i", "n", "e", "t", "y", " ", "n", "i",
              "n", "e">>>> }

\* a number is a maximal run of digits; the positions where one starts
NumStarts(s) == {i \in 1..Len(s) : IsDigit(s[i]) /\ ~IsDigit(Ch(s, i - 1))}

NumAt(s, i) == SubSeq(s, i, i + DigitRunLen(s, i) - 1)

\* the number a and, behind the hyphen, the number b of a range at position i
RangeA(s, i) == NumAt(s, i)
RangeB(s, i) == NumAt(s, i + Len(RangeA(s, i)) + 1)
IsRangeAt(s, i) ==
    /\ i \in NumStarts(s)
    /\ Ch(s, i + Len(RangeA(s, i))) = "-"
    /\ RangeB(s, i) # <<>>
\* the position behind the range a-b
AfterRange(s, i) == i + Len(RangeA(s, i)) + 1 + Len(RangeB(s, i))

\* "a-b%" at position i
IsPercentRangeAt(s, i) == IsRangeAt(s, i) /\ Ch(s, AfterRange(s, i)) = "%"

\* "a-b <unit>" at position i, for the unit units[u]
IsUnitRangeAt(s, i, u) ==
    /\ IsRangeAt(s, i)
    /\ SpaceRunLen(s, AfterRange(s, i)) >= 1
    /\ HasAt(s, AfterRange(s, i) + SpaceRunLen(s, AfterRange(s, i)), units[u])
UnitRangeLast(s, i, u) ==
    AfterRange(s, i) + SpaceRunLen(s, AfterRange(s, i)) + Len(units[u]) - 1

\* "n%" at position i, n not being the b of a percent range
IsSinglePercentAt(s, i) ==
    /\ i \in NumStarts(s)
    /\ Ch(s, i + Len(NumAt(s, i))) = "%"
    /\ ~(Ch(s, i - 1) = "-" /\ IsDigit(Ch(s, i - 2)))

Small(num) == int(num) < Thousand

\* how a number of a pattern is to be spoken: spelled out below 1000, its
\* digits otherwise
Spoken(num) == IF Small(num) THEN RefSpelling(int(num)) ELSE num

SpokenPercentRange(s, i) ==
    Spoken(RangeA(s, i)) \o <<" ", "t", "o", " ">> \o Spoken(RangeB(s, i))
    \o <<" ", "p", "e", "r", "c", "e", "n", "t">>

SpokenUnitRange(s, i, u) ==
    Spoken(RangeA(s, i)) \o <<" ", "t", "o", " ">> \o Spoken(RangeB(s, i))
    \o <<" ">> \o units[u]

SpokenSinglePercent(s, i) ==
    Spoken(NumAt(s, i)) \o <<" ", "p", "e", "r", "c", "e", "n", "t">>

\* the characters of the output that stand at input positions i..last
SpanText(out, i, last) ==
    LET Within(x) == x.o >= i /\ x.o <= last
    IN  Plain(SelectSeq(out, Within))

\* the output keeps the order of the input
Ordered(out) == \A k \in 1..(Len(out) - 1) : out[k].o <= out[k + 1].o

\* the call has returned
Formatted == f_pc = "once"

Contains(s, w) ==
    \/ w = <<>>
    \/ \E k \in 1..(Len(s) - Len(w) + 1) : s[k] = w[1] /\ HasAt(s, k, w)

T_ROI_spoken ==
    <<"O", "u", "r", " ", "R", "O", "I", " ", "i", "s", " ", "o", "n", "e",
      " ", "h", "u", "n", "d", "r", "e", "d", " ", "a", "n", "d", " ", "f",
      "i", "f", "t", "y", " ", "t", "o", " ", "t", "w", "o", " ", "h", "u",
      "n", "d", "r", "e", "d", " ", "p", "e", "r", "c", "e", "n", "t", ".">>

T_doc_150_200 ==
    <<"o", "n", "e", " ", "f", "i", "f", "t", "y", " ", "t", "o", " ", "t",
      "w", "o", " ", "h", "u", "n", "d", "r", "e", "d", " ", "p", "e", "r",
      "c", "e", "n", "t">>

T_999 ==
    <<"n", "i", "n", "e", " ", "h", "u", "n", "d", "r", "e", "d", " ", "a",
      "n", "d", " ", "n", "i", "n", "e", "t", "y", " ", "n", "i", "n", "e">>

T_1000_to_2000 ==
    <<"1", "0", "0", "0", " ", "t", "o", " ", "2", "0", "0", "0", " ", "p",
      "e", "r", "c", "e", "n", "t">>

T_01500_pct ==
    <<"0", "1", "5", "0", "0", "%">>

T_01500_percent ==
    <<"0", "1", "5", "0", "0", " ", "p", "e", "r", "c", "e", "n", "t">>

T_0_7_pct_0_pct ==
    <<"0", "-", "7", "%", "0", "%">>

T_1500_7 ==
    <<"1", "5", "0", "0", "-", "7">>

-----------------------------------------------------------------------------
(* Claims *)

\* C1: for every n in 0..999, number_to_words of the digit string of n (here
\* also with leading zeros) returns the reference spelling of n, which agrees
\* with the spot checks of the specification.
C1_WordsExact ==
    (w_pc = "done" /\ w_n <= 999) =>
        /\ w_out = RefSpelling(w_n)
        /\ \A sc \in SpotChecks : sc[1] = w_n => w_out = sc[2]

C1_Witness == w_pc = "done" /\ w_n = 999 /\ w_in = DigitString(999) /\ w_out = T_999

\* C2: every "a-b%", every "a-b <unit>" and every remaining "n%" of the input
\* whose numbers are in 0..999 stands in the output, at its place, as
\* "<words(a)> to <words(b)> percent", "<words(a)> to <words(b)> <unit>" and
\* "<words(n)> percent".
C2_PatternsSpoken ==
    Formatted =>
        /\ Ordered(f_res.out)
        /\ \A i \in NumStarts(f_in) :
            /\ (IsPercentRangeAt(f_in, i)
                    /\ Small(RangeA(f_in, i)) /\ Small(RangeB(f_in, i)))
                => SpanText(f_res.out, i, AfterRange(f_in, i))
                       = SpokenPercentRange(f_in, i)
            /\ \A u \in 1..Len(units) :
                (IsUnitRangeAt(f_in, i, u)
                    /\ Small(RangeA(f_in, i)) /\ Small(RangeB(f_in, i)))
                => SpanText(f_res.out, i, UnitRangeLast(f_in, i, u))
                       = SpokenUnitRange(f_in, i, u)
            /\ (IsSinglePercentAt(f_in, i) /\ Small(NumAt(f_in, i)))
                => SpanText(f_res.out, i, i + Len(NumAt(f_in, i)))
                       = SpokenSinglePercent(f_in, i)

C2_Witness == f_pc = "once" /\ f_in = Ex_ROI /\ Plain(f_res.out) = T_ROI_spoken

\* C3 as stated: a recognized pattern with a number >= 1000 is passed through
\* unmodified, its '%' and its hyphen included.
C3_PassedThroughUnmodified ==
    Formatted =>
        \A i \in NumStarts(f_in) :
            /\ (IsPercentRangeAt(f_in, i)
                    /\ ~(Small(RangeA(f_in, i)) /\ Small(RangeB(f_in, i))))
                => SpanText(f_res.out, i, AfterRange(f_in, i))
                       = SubSeq(f_in, i, AfterRange(f_in, i))
            /\ \A u \in 1..Len(units) :
                (IsUnitRangeAt(f_in, i, u)
                    /\ ~(Small(RangeA(f_in, i)) /\ Small(RangeB(f_in, i))))
                => SpanText(f_res.out, i, UnitRangeLast(f_in, i, u))
                       = SubSeq(f_in, i, UnitRangeLast(f_in, i, u))
            /\ (IsSinglePercentAt(f_in, i) /\ ~Small(NumAt(f_in, i)))
                => SpanText(f_res.out, i, i + Len(NumAt(f_in, i)))
                       = SubSeq(f_in, i, i + Len(NumAt(f_in, i)))

\* C3 amended: in a recognized pattern with a number >= 1000 only the digits of
\* that number are kept; the pattern is still rewritten: '-' becomes " to ",
\* '%' becomes " percent", and a number below 1000 beside it is spelled out.
C3_OnlyDigitsKept ==
    Formatted =>
        \A i \in NumStarts(f_in) :
            /\ (IsPercentRangeAt(f_in, i)
                    /\ ~(Small(RangeA(f_in, i)) /\ Small(RangeB(f_in, i))))
                => SpanText(f_res.out, i, AfterRange(f_in, i))
                       = SpokenPercentRange(f_in, i)
            /\ \A u \in 1..Len(units) :
                (IsUnitRangeAt(f_in, i, u)
                    /\ ~(Small(RangeA(f_in, i)) /\ Small(RangeB(f_in, i))))
                => SpanText(f_res.out, i, UnitRangeLast(f_in, i, u))
                       = SpokenUnitRange(f_in, i, u)
            /\ (IsSinglePercentAt(f_in, i) /\ ~Small(NumAt(f_in, i)))
                => SpanText(f_res.out, i, i + Len(NumAt(f_in, i)))
                       = SpokenSinglePercent(f_in, i)

C3_Witness ==
    f_pc = "once" /\ f_in = Ex_1000_2000 /\ Plain(f_res.out) = T_1000_to_2000

\* the numbers >= 1000 of the recognized pattern at position i, each with the
\* last input position of its pattern
BigNumbersAt(s, i) ==
    {<<RangeA(s, i), AfterRange(s, i)>> :
        x \in {x \in {1} : IsPercentRangeAt(s, i) /\ ~Small(RangeA(s, i))}}
    \cup {<<RangeB(s, i), AfterRange(s, i)>> :
        x \in {x \in {1} : IsPercentRangeAt(s, i) /\ ~Small(RangeB(s, i))}}
    \cup {<<RangeA(s, i), UnitRangeLast(s, i, u)>> :
        u \in {u \in 1..Len(units) : IsUnitRangeAt(s, i, u) /\ ~Small(RangeA(s, i))}}
    \cup {<<RangeB(s, i), UnitRangeLast(s, i, u)>> :
        u \in {u \in 1..Len(units) : IsUnitRangeAt(s, i, u) /\ ~Small(RangeB(s, i))}}
    \cup {<<NumAt(s, i), i + Len(NumAt(s, i))>> :
        x \in {x \in {1} : IsSinglePercentAt(s, i) /\ ~Small(NumAt(s, i))}}

\* C4: the digit string of every number >= 1000 of a recognized pattern stands
\* verbatim in the output, in the text that replaces the pattern.
C4_DigitsVerbatim ==
    Formatted =>
        \A i \in NumStarts(f_in) :
            \A big \in BigNumbersAt(f_in, i) :
                Contains(SpanText(f_res.out, i, big[2]), big[1])

C4_Witness ==
    f_pc = "once" /\ f_in = T_01500_pct /\ Plain(f_res.out) = T_01500_percent

\* C5 as the docstring states it: "150-200%" becomes "one fifty to two hundred
\* percent".
C5_DocstringExample ==
    (Formatted /\ f_in = Doc_150_200) => Plain(f_res.out) = T_doc_150_200

\* C6: the passes run in the order percent range, unit range, single percent,
\* each on the whole text the one before left; every "a-b%" of the input is
\* replaced as a whole by the percent-range pass, and its "b%" is never
\* converted on its own ("a-<words(b)> percent").
C6_PercentRangeFirst ==
    Formatted =>
        /\ \A k \in 1..Len(f_res.p1) : f_res.p1[k].g \in {0, 1}
        /\ \A k \in 1..Len(f_res.p2) : f_res.p2[k].g \in {0, 1, 2}
        /\ \A i \in NumStarts(f_in) :
            IsPercentRangeAt(f_in, i) =>
                /\ \A k \in 1..Len(f_res.out) :
                    (f_res.out[k].o >= i /\ f_res.out[k].o <= AfterRange(f_in, i))
                        => f_res.out[k].g = 1
                /\ SpanText(f_res.out, i, AfterRange(f_in, i))
                       # RangeA(f_in, i) \o <<"-">>
                           \o SpokenSinglePercent(f_in, i + Len(RangeA(f_in, i)) + 1)

\* a percent range and, behind it, a single percentage
C6_Witness ==
    /\ f_pc = "once" /\ f_in = T_0_7_pct_0_pct
    /\ \E k \in 1..Len(f_res.out) : f_res.out[k].g = 1
    /\ \E k \in 1..Len(f_res.out) : f_res.out[k].g = 3

\* C7: no match of a later pass takes in a character that a replacement of an
\* earlier pass produced.
C7_NoRematch == Formatted => ~f_res.re

\* a percent-range replacement that left digits in the text, then the two
\* later passes
C7_Witness ==
    /\ f_pc = "once"
    /\ \E k \in 1..Len(f_res.p1) : f_res.p1[k].g = 1 /\ IsDigit(f_res.p1[k].c)
    /\ \E k \in 1..Len(f_res.out) : f_res.out[k].g = 3
    /\ ~f_res.re

\* C8: applying the function to its own result changes nothing.
C8_Idempotent == f_pc = "twice" => f_twice = Plain(f_res.out)

\* a result that differs from the input and still holds digits
C8_Witness ==
    /\ f_pc = "twice"
    /\ Plain(f_res.out) # f_in
    /\ \E k \in 1..Len(f_twice) : IsDigit(f_twice[k])
    /\ f_twice = Plain(f_res.out)

\* the input holds no "<int>-<int>%", no "<int>-<int> <unit>" and no "<int>%"
NoPattern(s) ==
    \A i \in NumStarts(s) :
        /\ ~IsPercentRangeAt(s, i)
        /\ \A u \in 1..Len(units) : ~IsUnitRangeAt(s, i, u)
        /\ Ch(s, i + Len(NumAt(s, i))) # "%"

\* C9: a text without any match of the three patterns is returned as it is.
C9_NoMatchUnchanged == (Formatted /\ NoPattern(f_in)) => Plain(f_res.out) = f_in

C9_Witness ==
    f_pc = "once" /\ f_in = T_1500_7 /\ NoPattern(f_in) /\ Plain(f_res.out) = f_in

\* C10: get_tekisho_solutions never raises to its caller: whatever its
\* dependencies do, the call ends by returning a string.
C10_NeverRaises ==
    \A p \in Requests :
        th[p].pc = "done" => (~th[p].raised /\ th[p].result # None)

\* documents were retrieved, the completion came back with null content, and
\* the call returned the fallback
C10_Witness ==
    \E p \in Requests :
        /\ th[p].pc = "done"
        /\ th[p].relevant_docs # <<>>
        /\ th[p].ext[Len(th[p].ext)] = <<"llm">>
        /\ th[p].result = generate_fallback_response(th[p].challenge, th[p].industry)
        /\ ~th[p].raised

\* the calls of get_tekisho_solutions that have returned
Returned == {p \in Requests : th[p].ret = "qp" /\ th[p].pc = "done"}

\* the positions in the history of thread p at which `name` was called
CallsOf(p, name) == {i \in 1..Len(th[p].ext) : th[p].ext[i][1] = name}

\* C11: for a non-empty challenge get_tekisho_solutions returns a non-empty
\* string whatever its dependencies do, also when documents were retrieved and
\* the completion is empty or blank.
C11_NonEmptyResult ==
    \A p \in Returned : th[p].challenge # <<>> => Truthy(th[p].result)

\* C12: a result of the fallback path holds the challenge text; it holds the
\* industry text inside the clause "For businesses in the ... industry, " when
\* an industry is given, and no such clause when the industry is None or empty.
C12_FallbackContent ==
    \A p \in Returned :
        th[p].cause # "none" =>
            /\ Contains(th[p].result, FB_understand \o th[p].challenge)
            /\ Truthy(th[p].industry) =>
                   Contains(th[p].result, FB_businesses \o th[p].industry \o FB_industry)
            /\ ~Truthy(th[p].industry) =>
                   /\ ~Contains(th[p].result, FB_businesses)
                   /\ ~Contains(th[p].result, FB_industry)

\* a call with the empty industry failed and returned the fallback
C12_Witness ==
    \E p \in Returned :
        /\ th[p].cause # "none"
        /\ th[p].industry = <<>>
        /\ Contains(th[p].result, th[p].challenge)
        /\ ~Contains(th[p].result, FB_businesses)

\* the failure causes the call can end with
Causes ==
    {"no_credentials", "no_library", "index_missing", "init_exception",
     "no_embedding_key", "embedding_exception", "embedding_empty",
     "query_exception", "no_documents", "context_exception",
     "model_exception", "content_null"}

\* C13: whichever step failed, the call returns
\* generate_fallback_response(challenge, industry): the result is a function of
\* the challenge and the industry alone.
C13_SameFallback ==
    \A p \in Returned :
        /\ th[p].cause \in Causes \cup {"none"}
        /\ th[p].cause \in Causes =>
               th[p].result = generate_fallback_response(th[p].challenge, th[p].industry)

\* the language model raised after documents were retrieved, and the call
\* returned the fallback text
C13_Witness ==
    \E p \in Returned :
        /\ th[p].cause = "model_exception"
        /\ CallsOf(p, "llm") # {}
        /\ Truthy(th[p].industry)
        /\ th[p].result = generate_fallback_response(th[p].challenge, th[p].industry)

\* C14: the text embedded is "<industry> industry: <challenge>" and the index
\* query carries the filter {industry: <industry>} when an industry is given;
\* otherwise the text is the challenge and the query has no filter; the query's
\* top_k is the caller's.
C14_QueryBuilt ==
    \A p \in Requests :
        th[p].ret = "qp" =>
            /\ \A i \in CallsOf(p, "embed") :
                   th[p].ext[i][2] =
                       IF Truthy(th[p].industry)
                       THEN th[p].industry \o QT_industry \o th[p].challenge
                       ELSE th[p].challenge
            /\ \A i \in CallsOf(p, "query") :
                   /\ th[p].ext[i][2] = th[p].top_k
                   /\ th[p].ext[i][3] = Truthy(th[p].industry)
                   /\ Truthy(th[p].industry) => th[p].ext[i][4] = th[p].industry

\* a call with an industry and the default top_k has queried the index, and
\* one with the empty industry has queried it without a filter
C14_Witness ==
    \E p \in Requests :
        /\ th[p].ret = "qp"
        /\ th[p].industry = <<"i", "t">>
        /\ th[p].top_k = DefaultTopK
        /\ \E i \in CallsOf(p, "embed") :
               th[p].ext[i][2] = <<"i", "t">> \o QT_industry \o th[p].challenge
        /\ \E i \in CallsOf(p, "query") :
               th[p].ext[i] = <<"query", DefaultTopK, TRUE, <<"i", "t">> >>

\* C15: in one call of get_tekisho_solutions the embedding, the index query and
\* the completion are each called at most once and in this order; the index is
\* queried only with a non-empty embedding, the model is called only with at
\* least one document.
C15_CallOrder ==
    \A p \in Requests :
        th[p].ret = "qp" =>
            /\ \A name \in {"embed", "query", "llm"} : Cardinality(CallsOf(p, name)) <= 1
            /\ \A i \in CallsOf(p, "query") :
                   /\ \E e \in CallsOf(p, "embed") : e < i
                   /\ th[p].query_embedding # <<>>
            /\ \A i \in CallsOf(p, "llm") :
                   /\ \E q \in CallsOf(p, "query") : q < i
                   /\ Len(th[p].relevant_docs) >= 1

\* a call went through all three external calls
C15_Witness ==
    \E p \in Returned :
        /\ CallsOf(p, "embed") # {}
        /\ CallsOf(p, "query") # {}
        /\ CallsOf(p, "llm") # {}
        /\ th[p].cause = "none"

\* C16: over any sequence and interleaving of calls, the module load
\* included, the Pinecone client and the Pinecone index handle are each
\* created at most once.
C16_HandlesCreatedOnce == created.clients <= 1 /\ created.indexes <= 1

\* the calls of add_document_to_knowledge_base that have returned
ReturnedAdd == {p \in Requests : th[p].ret = "add" /\ th[p].pc = "add_done"}

\* C17: add_document_to_knowledge_base never raises; it returns False when the
\* initialization, the embedding, the metadata entry or the upsert failed, and
\* True only after an upsert call that did not raise.
C17_AddNeverRaises ==
    \A p \in ReturnedAdd :
        /\ ~th[p].raised
        /\ th[p].cause # "none" => ~th[p].added
        /\ th[p].added => (th[p].cause = "none" /\ CallsOf(p, "upsert") # {})

\* the upsert raised and the call returned False
C17_Witness ==
    \E p \in ReturnedAdd :
        /\ th[p].cause = "upsert_exception"
        /\ CallsOf(p, "upsert") # {}
        /\ ~th[p].added
        /\ ~th[p].raised

\* C18: a call that returned True made exactly one upsert, of exactly one
\* vector: its values are the embedding returned for the text, its metadata
\* is the caller's with "text" set to the text (an old "text" entry replaced),
\* its id is the caller's doc_id, or a generated one when doc_id is None or
\* empty.
C18_UpsertedVector ==
    \A p \in ReturnedAdd :
        th[p].added =>
            /\ Cardinality(CallsOf(p, "upsert")) = 1
            /\ \A e \in CallsOf(p, "embed") : th[p].ext[e][2] = th[p].text
            /\ \A i \in CallsOf(p, "upsert") :
                LET vectors == th[p].ext[i][2]
                IN  /\ Len(vectors) = 1
                    /\ \E e \in CallsOf(p, "embed") : e < i
                    /\ vectors[1].values = th[p].embedding
                    /\ th[p].embedding \in Vectors
                    /\ <<"text", th[p].text>> \in vectors[1].metadata
                    /\ \A x \in vectors[1].metadata :
                           x[1] = "text" => x[2] = th[p].text
                    /\ \A x \in th[p].metadata :
                           x[1] # "text" => x \in vectors[1].metadata
                    /\ \A x \in vectors[1].metadata :
                           x[1] # "text" => x \in th[p].metadata
                    /\ Truthy(th[p].doc_id) => vectors[1].id = th[p].doc_id
                    /\ ~Truthy(th[p].doc_id) =>
                           /\ vectors[1].id = <<"u", "u", "i", "d">>
                           /\ vectors[1].id \notin DocIds

\* a document whose metadata had a "text" entry was added with an empty doc_id
C18_Witness ==
    \E p \in ReturnedAdd :
        /\ th[p].added
        /\ th[p].doc_id = <<>>
        /\ <<"text", <<"o">> >> \in th[p].metadata
        /\ \E i \in CallsOf(p, "upsert") :
               /\ th[p].ext[i][2][1].metadata = {<<"text", th[p].text>>}
               /\ th[p].ext[i][2][1].id # <<>>

-----------------------------------------------------------------------------
(* The endpoints *)

\* the requests that have been answered
Responded(api) ==
    {p \in Requests : th[p].api = api /\ th[p].pc = "responded"}

\* the field of the body is missing, empty or whitespace-only
Blank(json, value) ==
    \/ ~json
    \/ value = Missing
    \/ value # None /\ strip(value) = <<>>

\* C19: /api/get_solutions answers a request whose challenge is missing, empty
\* or whitespace-only with HTTP 400, and such a request never calls
\* rag.get_tekisho_solutions nor any embedding, index or model call.
C19_BlankChallengeRejected ==
    \A p \in Requests :
        (th[p].api = "get_solutions" /\ Blank(th[p].data.json, th[p].data.challenge))
        => /\ th[p].pc = "responded"
           /\ th[p].status = 400
           /\ th[p].challenge = None
           /\ th[p].ext = <<>>

\* requests with an empty body, and with a missing, an empty and a blank
\* challenge have been rejected (one at a time)
C19_Witness ==
    \E p \in Responded("get_solutions") :
        /\ th[p].data.json
        /\ th[p].data.challenge = <<" ">>
        /\ th[p].status = 400
        /\ th[p].ext = <<>>

\* C20 as stated: the endpoints call the core functions on the values as they
\* were submitted, without trimming.
C20_PassThroughRaw ==
    /\ \A p \in Responded("get_solutions") :
         th[p].status = 200 =>
            /\ th[p].challenge = th[p].data.challenge
            /\ th[p].solution = Plain(format_numbers_for_speech(th[p].result).out)
    /\ \A p \in Responded("format_numbers") :
         th[p].status = 200 =>
            th[p].solution = Plain(format_numbers_for_speech(th[p].data.text).out)

\* C20: for every accepted request /api/get_solutions answers 200 with the
\* formatted result of get_tekisho_solutions(challenge.strip(), industry) with
\* the default top_k, and /api/format_numbers answers 200 with
\* format_numbers_for_speech(text.strip()); the industry is passed as sent.
C20_PassThroughStripped ==
    /\ \A p \in Responded("get_solutions") :
         ~Blank(th[p].data.json, th[p].data.challenge) /\ th[p].data.challenge # None
         => /\ th[p].status = 200
            /\ th[p].ret = "qp"
            /\ th[p].challenge = strip(th[p].data.challenge)
            /\ th[p].industry = Get(th[p].data.industry, None)
            /\ th[p].top_k = DefaultTopK
            /\ th[p].solution = Plain(format_numbers_for_speech(th[p].result).out)
    /\ \A p \in Responded("format_numbers") :
         ~Blank(th[p].data.json, th[p].data.text) /\ th[p].data.text # None
         => /\ th[p].status = 200
            /\ th[p].solution =
                  Plain(format_numbers_for_speech(strip(th[p].data.text)).out)

\* a challenge sent with blanks around it was answered from the completion
\* " 5% ", which the endpoint returned as "five percent"
C20_Witness ==
    \E p \in Responded("get_solutions") :
        /\ th[p].data.challenge = <<" ", "h", "r", " ">>
        /\ th[p].challenge = <<"h", "r">>
        /\ th[p].result = <<"5", "%">>
        /\ th[p].solution = <<"f", "i", "v", "e", " ", "p", "e", "r", "c", "e", "n", "t">>
        /\ th[p].status = 200

\* /api/format_numbers was sent " 5% " and returned "five percent"
C20_WitnessFormat ==
    \E p \in Responded("format_numbers") :
        /\ th[p].data.text = <<" ", "5", "%", " ">>
        /\ th[p].solution = <<"f", "i", "v", "e", " ", "p", "e", "r", "c", "e", "n", "t">>
        /\ th[p].status = 200

-----------------------------------------------------------------------------
(* The order of the steps, the lifecycle of the index handle *)

\* the causes that name a failure of the embedding step
EmbeddingCauses == {"no_embedding_key", "embedding_exception", "embedding_empty"}

\* C21: within one get_tekisho_solutions call the embedding is requested
\* before lazy initialization is attempted, and a call that ends because the
\* embedding service is unconfigured or returns nothing has made no
\* initialization attempt.
C21_EmbedBeforeInit ==
    \A p \in Requests :
        th[p].ret = "qp" =>
            /\ th[p].inits > 0 => CallsOf(p, "embed") # {}
            /\ th[p].cause \in EmbeddingCauses => th[p].inits = 0

\* the places of a call between its test of pinecone_index and the return of
\* initialize_pinecone
InitPlaces == {"qp_check", "add_check", "init_client", "init_index"}

\* C24: once pinecone_index holds a handle it is never reset nor replaced and
\* no call runs the initialization again; while it is null every
\* query_pinecone and add_document_to_knowledge_base call makes exactly one
\* initialization attempt, and none once the handle is there.
C24_IndexLifecycle ==
    [][/\ pinecone_index # 0 => pinecone_index' = pinecone_index
       /\ \A p \in Requests :
            /\ (th[p].pc \in {"init_client", "init_index"} /\ th'[p] # th[p])
               => pinecone_index = 0
            /\ (th[p].pc \in {"qp_check", "add_check"} /\ th'[p] # th[p])
               => th'[p].inits = IF pinecone_index = 0 THEN 1 ELSE 0
            /\ (th[p].pc \in InitPlaces /\ th'[p].pc \notin InitPlaces)
               => th'[p].inits <= 1]_vars

-----------------------------------------------------------------------------
(* The caller's metadata *)

\* C25: whenever add_document_to_knowledge_base returns False the caller's
\* metadata mapping is as it was passed (no "text" entry added or replaced)
\* and no upsert was completed, whatever failed, an upsert that raises after
\* the embedding succeeded included.
C25_FalseLeavesMetadata ==
    \A p \in ReturnedAdd :
        ~th[p].added =>
            /\ th[p].mapping = th[p].metadata
            /\ CallsOf(p, "upsert") # {} => th[p].cause = "upsert_exception"

-----------------------------------------------------------------------------
(* The fallback text and the number formatting *)

\* one of the three patterns matches somewhere in the text
HasPattern(text) == \E k \in 1..3 : MatchStarts(k, text, 1) # {}

\* the figures of the fallback paragraph
FB_figures ==
    {<<"1", "5", "0", " ", "t", "o", " ", "3", "0", "0", " ", "p", "e", "r", "c", "e", "n", "t">>,
     <<"6", " ", "t", "o", " ", "1", "2", " ", "w", "e", "e", "k", "s">>,
     <<"2", "5", " ", "t", "o", " ", "4", "0", " ", "p", "e", "r", "c", "e", "n", "t">>,
     <<"5", "0", " ", "t", "o", " ", "8", "0", " ", "p", "e", "r", "c", "e", "n", "t">>}

\* C29: when the challenge and the industry hold no percent-range, unit-range
\* or single-percent pattern, format_numbers_for_speech leaves
\* generate_fallback_response(challenge, industry) unchanged, so
\* /api/get_solutions returns the fallback text verbatim, figures as digits.
C29_FallbackUnchanged ==
    \A p \in Responded("get_solutions") :
        (/\ th[p].cause # "none"
         /\ ~HasPattern(th[p].challenge)
         /\ Truthy(th[p].industry) => ~HasPattern(th[p].industry))
        => /\ th[p].status = 200
           /\ th[p].result = generate_fallback_response(th[p].challenge, th[p].industry)
           /\ th[p].solution = th[p].result
           /\ \A w \in FB_figures : Contains(th[p].solution, w)

\* the fallback for a challenge and an industry that end like the start of a
\* range was returned as it was
C29_Witness ==
    \E p \in Responded("get_solutions") :
        /\ th[p].cause = "no_credentials"
        /\ th[p].challenge = <<"1", "2", " ", "6", "-", "8">>
        /\ th[p].industry = <<"6", "-", "8">>
        /\ th[p].solution = th[p].result
        /\ Contains(th[p].solution, th[p].challenge)

-----------------------------------------------------------------------------
(* The agent *)

\* C22: on every path through entrypoint on which the Tavus avatar session
\* was started, avatar.stop() has been invoked exactly once when entrypoint
\* exits, also when the exception handler and the finally block both ran.
C22_StopOnce == (entry.pc = "exit" /\ entry.started) => entry.stops = 1

\* C23: a get_tekisho_solutions call with an explicit non-empty industry sends
\* that industry; one without an industry sends the industry of the client
\* the last successful search found; the stored industry is the one of that
\* client whatever searches failed or found nobody since.
C23_IndustrySent ==
    /\ StoredIndustry(agent.conversation_context)
         = (IF agent.found = Missing THEN None ELSE agent.found)
    /\ agent.tool = "solutions" =>
         /\ agent.sent.path = "/api/get_solutions"
         /\ Truthy(agent.argument) => agent.sent.industry = agent.argument
         /\ (~Truthy(agent.argument) /\ agent.found # Missing /\ Truthy(agent.found))
            => agent.sent.industry = agent.found

\* after a client of the industry "it" was found, a call without an industry
\* sent "it"
C23_Witness ==
    /\ agent.tool = "solutions"
    /\ agent.found = <<"i", "t">>
    /\ agent.argument = None
    /\ agent.sent.industry = <<"i", "t">>

\* the placeholders of lines 196-197, 236-237 and 289-290
Placeholders(tool) ==
    IF tool = "followup"
    THEN <<<<"t", "h", "e", "r", "e">>,
           <<"y", "o", "u", "r", " ", "c", "o", "m", "p", "a", "n", "y">> >>
    ELSE IF tool = "summary"
    THEN <<<<"y", "o", "u">>,
           <<"y", "o", "u", "r", " ", "o", "r", "g", "a", "n", "i", "z", "a", "t", "i",
             "o", "n">> >>
    ELSE <<<<"U", "n", "k", "n", "o", "w", "n">>,
           <<"U", "n", "k", "n", "o", "w", "n", " ", "C", "o", "m", "p", "a", "n", "y">> >>

\* C28: while no client has been identified, schedule_followup,
\* summarize_conversation and store_chat_history put their placeholders into
\* the request they send and into their fallback text, never None.
C28_Placeholders ==
    (/\ agent.tool \in {"followup", "summary", "store"}
     /\ agent.found = Missing)
    => /\ agent.sent.client_name = Placeholders(agent.tool)[1]
       /\ agent.sent.company = Placeholders(agent.tool)[2]
       /\ ~Contains(agent.reply, <<"N", "o", "n", "e">>)

-----------------------------------------------------------------------------
(* Saving a chat history *)

\* C27: each of /api/store_chat_history, /save_chat and /save-conversation
\* answers success=true only if save_chat_history returned a saved record, a
\* result without the key "error".
C27_SuccessOnlyIfSaved ==
    (chat.pc = "responded" /\ chat.success) => chat.result = "record"

-----------------------------------------------------------------------------
(* "wants_specific_metrics" *)

\* the requests to /api/get_solutions that have passed the validation
Served == {p \in Requests : th[p].api = "get_solutions" /\ th[p].ret = "qp"}

\* the arguments with which get_tekisho_solutions was called for a request
Arguments(p) ==
    <<th[p].challenge, th[p].industry, th[p].top_k, th[p].query_text,
      th[p].filter_dict>>

\* what the services called for a request came to
Outcomes(p) ==
    <<th[p].cause, th[p].relevant_docs, th[p].content, th[p].raised>>

\* two requests whose bodies agree on "challenge" and "industry"
Agree(p, q) ==
    /\ th[p].data.challenge = th[q].data.challenge
    /\ th[p].data.industry = th[q].data.industry

\* C26: two requests to /api/get_solutions that agree on "challenge" and
\* "industry" call get_tekisho_solutions with the same arguments, whatever
\* "wants_specific_metrics" they carry, and when the services they called
\* came to the same, their responses have the same status and solution.
C26_MetricsIgnored ==
    \A p \in Served, q \in Served :
        Agree(p, q) =>
            /\ Arguments(p) = Arguments(q)
            /\ (th[p].pc = "responded" /\ th[q].pc = "responded"
                /\ Outcomes(p) = Outcomes(q))
               => (th[p].status = th[q].status /\ th[p].solution = th[q].solution)

\* two answered requests that differ in "wants_specific_metrics" only and
\* whose answer the model gave
C26_Witness ==
    \E p \in Served, q \in Served :
        /\ Agree(p, q)
        /\ th[p].wants_specific_metrics = True
        /\ th[q].wants_specific_metrics = False
        /\ th[p].pc = "responded" /\ th[q].pc = "responded"
        /\ Outcomes(p) = Outcomes(q)
        /\ th[p].cause = "none"
        /\ th[p].solution # None

====
